---- MODULE Spec2Model ----
(***************************************************************************)
(* Model of the per-user container / versioned filesystem core of Memoh    *)
(* and of the chat stream producer.                                        *)
(*                                                                         *)
(* The module holds several specifications, one per part of the program:   *)
(*   SpecVer   the version catalogue (container_versions) and the          *)
(*             CreateVersion calls that read and insert into it;           *)
(*   SpecDiff  unifiedDiff followed by applyUnifiedPatch on bounded texts; *)
(*   SpecPath  resolveContainerPath on the request path of a Read;         *)
(*   SpecJoin  Read and WriteAtomic from the request path to the host path *)
(*             the OS touches, over snapshots that hold symlinks;          *)
(*   SpecFS    writeFileAtomic, call by call, against concurrent Reads;    *)
(*   SpecPatch ApplyPatch on one file;                                     *)
(*   SpecReq   the request boundary: user id, arguments, label, mounts;    *)
(*   SpecStop  StopTask against the task it stops and the clock;           *)
(*   SpecMgr   the manager operations over the runtime and the catalogue,  *)
(*             with an FS write beside them;                               *)
(*   SpecApply applyUnifiedPatch on patches of several hunks;              *)
(*   SpecRace  ApplyPatch next to another writer of the same path;         *)
(*   SpecChat  the producer goroutine of StreamChat and its two channels.  *)
(* Each specification owns a group of variables and leaves the other       *)
(* groups at their idle value.                                             *)
(***************************************************************************)
EXTENDS Integers, Sequences, FiniteSets, TLC

VARIABLES
  container_versions,  \* the container_versions table, rows in insertion order
  cv,                  \* per caller: the CreateVersion call in flight
  succeeded,           \* per user: number of CreateVersion calls that succeeded
  returned,            \* results handed back by successful CreateVersion calls
  dOld, dNew,          \* the version-side and live-side texts handed to unifiedDiff
  dPatch,              \* the diff text unifiedDiff produced
  dResult,             \* what applyUnifiedPatch returned for (dOld, dPatch)
  dPc,                 \* "start" | "diffed" | "applied"
  pMount,              \* the configured data mount
  pRequest,            \* the request path of a Read
  pPc,                 \* "start" | "resolved" | "done"
  pContainerPath,      \* what resolveContainerPath returned
  pStatus,             \* 0 while running, else the HTTP status
  pHostReads,          \* host paths the handler has passed to the OS
  jFs,                 \* the host file tree: path -> [kind, dest]
  jRequest,            \* the request path of a Read or WriteAtomic
  jPc,                 \* "start" | "container" | "host" | "done"
  jContainerPath,      \* what resolveContainerPath returned
  jHostPath,           \* what resolveHostPath returned
  jStatus,             \* 0 while running, 400 when a path is refused
  jAccess,             \* the host paths the OS was asked to touch: [op, st, loc]
  fDir,                \* the directory of the target: name -> inode number, 0 when absent
  fInodes,             \* inode number -> [data, mode, mtime]
  w,                   \* the one WriteAtomic or ApplyPatch request
  rd,                  \* the Read requests
  req,                 \* one request at the request boundary
  qContainer,          \* the runtime's container memoh-user-<caller>: [exists, hasLabel, label]
  qMounts,             \* snapshot mounts made so far: handle -> [live, releases]
  qFiles,              \* writes made to the container's files
  qRows,               \* the versions of the container in the catalogue
  qCalls,              \* runtime, mount and database calls issued for the request
  stk,                 \* the one StopTask call: its options, position and result
  task,                \* the task StopTask stops: [status, inTime]
  kills,               \* the signals passed to task.Kill, in order
  statusC,             \* TRUE once the exit status waits on the channel task.Wait returned
  timerC,              \* TRUE once the timer has fired
  clock,               \* ticks since the timer was created
  rtContainers,        \* the containers of the runtime: [id, snapshotKey, label]
  rtSnapshots,         \* the snapshots of the runtime by storage number: [key, kind, parent, data]
  rtTasks,             \* container id -> "none" | "running"
  dbContainers,        \* the containers table: [container_id, status]
  dbSnapshots,         \* the snapshots table: [id, container_id]
  dbVersions,          \* the container_versions table of the manager: [container_id, snapshot_id, version]
  dbEvents,            \* the lifecycle_events table, rows in insertion order: [container_id, event_type]
  locks,               \* the per-user lock table: user -> holding thread, "" when free
  mop,                 \* per thread: the manager operation in flight
  fsw,                 \* the one FS write in flight, and the calls made so far
  made,                \* what CreateVersion returned, with the file content of that moment
  hist,              \* per user: the last successful Rollback and the content read after it
  ow,                  \* the other writer of the target: [done, data]
  sc,                  \* StreamChat producer goroutine: position, request, upstream body, scan state
  chunkChan,           \* the unbuffered chunk channel: values sent, close count, sends after close
  errChan,             \* the error channel of capacity 1: buffer, send and close counts
  co                   \* the consumer: chunks and errors received, whether it still listens

verVars == <<container_versions, cv, succeeded, returned>>

diffVars == <<dOld, dNew, dPatch, dResult, dPc>>

pathVars == <<pMount, pRequest, pPc, pContainerPath, pStatus, pHostReads>>

joinVars == <<jFs, jRequest, jPc, jContainerPath, jHostPath, jStatus, jAccess>>

fsVars == <<fDir, fInodes, w, rd>>

reqVars == <<req, qContainer, qMounts, qFiles, qRows, qCalls>>

stopVars == <<stk, task, kills, statusC, timerC, clock>>

mgrVars == <<rtContainers, rtSnapshots, rtTasks, dbContainers, dbSnapshots, dbVersions, dbEvents, locks, mop, fsw, made, hist>>

raceVars == <<ow>>

chatVars == <<sc, chunkChan, errChan, co>>

vars == <<verVars, diffVars, pathVars, joinVars, fsVars, reqVars, stopVars, mgrVars, raceVars, chatVars>>

\* what the actions of one group leave alone
verOthers == <<diffVars, pathVars, joinVars, fsVars, reqVars, stopVars, mgrVars, raceVars, chatVars>>

diffOthers == <<verVars, pathVars, joinVars, fsVars, reqVars, stopVars, mgrVars, raceVars, chatVars>>

pathOthers == <<verVars, diffVars, joinVars, fsVars, reqVars, stopVars, mgrVars, raceVars, chatVars>>

joinOthers == <<verVars, diffVars, pathVars, fsVars, reqVars, stopVars, mgrVars, raceVars, chatVars>>

fsOthers == <<verVars, diffVars, pathVars, joinVars, reqVars, stopVars, mgrVars, raceVars, chatVars>>

reqOthers == <<verVars, diffVars, pathVars, joinVars, fsVars, stopVars, mgrVars, raceVars, chatVars>>

stopOthers == <<verVars, diffVars, pathVars, joinVars, fsVars, reqVars, mgrVars, raceVars, chatVars>>

mgrOthers == <<verVars, diffVars, pathVars, joinVars, fsVars, reqVars, stopVars, raceVars, chatVars>>

raceOthers == <<verVars, diffVars, pathVars, joinVars, fsVars, reqVars, stopVars, mgrVars, chatVars>>

chatOthers == <<verVars, diffVars, pathVars, joinVars, fsVars, reqVars, stopVars, mgrVars, raceVars>>

----------------------------------------------------------------------------
(* Bounds *)

NumCallers == 2     \* concurrent CreateVersion callers
MaxRows == 3        \* rows the version table may hold before callers stop
MaxStopTimeout == 2  \* largest timeout, in seconds, handed to StopTask
MaxMgrOps == 2      \* manager operations started in one run
MaxVersion == 3     \* largest version number CreateVersion hands out
MaxSeedVersions == 2  \* versions the container may have at the start of a run
MaxApplyLines == 3   \* lines in a patch handed to applyUnifiedPatch

----------------------------------------------------------------------------
(* Generic helpers *)

Max(S) == CHOOSE x \in S : \A y \in S : y <= x

----------------------------------------------------------------------------
(* Identity of containers and snapshots *)

Users == {"alice", "bob"}

ContainerPrefix == "memoh-user-"

ContainerID(u) == <<ContainerPrefix, u>>

VersionSnapshotName(cid, v) == <<cid, ":v", v>>

----------------------------------------------------------------------------
(* Catalogue: container_versions *)

RowsOf(cid) == {i \in 1..Len(container_versions) : container_versions[i].container_id = cid}

VersionsOf(cid) == {container_versions[i].version : i \in RowsOf(cid)}

\* SELECT COALESCE(MAX(version), 1) + 1: a wrong default for the empty table
NextVersionWrongDefault(cid) ==
  (IF VersionsOf(cid) = {} THEN 1 ELSE Max(VersionsOf(cid))) + 1

\* SELECT COALESCE(MAX(version), 0) + 1 FROM container_versions WHERE container_id = ?
NextVersion(cid) ==
  (IF VersionsOf(cid) = {} THEN 0 ELSE Max(VersionsOf(cid))) + 1

\* the table without its UNIQUE (container_id, version) constraint
VersionUniqueNoConstraint(cid, v) == TRUE

\* UNIQUE (container_id, version): an insert of an existing pair is refused
VersionUnique(cid, v) == v \notin VersionsOf(cid)

\* INSERT INTO container_versions (id, container_id, snapshot_id, version)
InsertVersion(cid, sid, v) ==
  Append(container_versions, [container_id |-> cid, snapshot_id |-> sid, version |-> v])

\* SELECT * FROM container_versions WHERE container_id = ? ORDER BY version ASC
\* (the version column of the rows, in the order returned)
ListVersionsByContainerID(cid) ==
  LET rows == RowsOf(cid)
      RECURSIVE Ordered(_)
      Ordered(R) ==
        IF R = {} THEN <<>>
        ELSE LET i == CHOOSE x \in R : \A y \in R :
                        \/ container_versions[x].version < container_versions[y].version
                        \/ (container_versions[x].version = container_versions[y].version /\ x <= y)
             IN <<container_versions[i].version>> \o Ordered(R \ {i})
  IN Ordered(rows)

\* SELECT snapshot_id FROM container_versions WHERE container_id = ? AND version = ?
GetVersionSnapshotID(cid, v) ==
  {container_versions[i].snapshot_id : i \in {j \in RowsOf(cid) : container_versions[j].version = v}}

----------------------------------------------------------------------------
(* Manager.CreateVersion, one step per catalogue or runtime call *)

Callers == 1..NumCallers

CvIdle == [pc |-> "idle", user |-> "", v |-> 0, maxBefore |-> 0]

VerIdle ==
  /\ container_versions = <<>>
  /\ cv = [c \in Callers |-> CvIdle]
  /\ succeeded = [u \in Users |-> 0]
  /\ returned = <<>>

\* entry: the call is made for user u
CreateVersionBegin(c, u) ==
  /\ cv[c].pc = "idle"
  /\ Len(container_versions) < MaxRows
  /\ cv' = [cv EXCEPT ![c] = [pc |-> "next", user |-> u, v |-> 0, maxBefore |-> 0]]
  /\ UNCHANGED <<container_versions, succeeded, returned>>
  /\ UNCHANGED verOthers

\* v = next_version(container_id)
CreateVersionNext(c) ==
  /\ cv[c].pc = "next"
  /\ cv' = [cv EXCEPT ![c].pc = "commit", ![c].v = NextVersion(ContainerID(cv[c].user))]
  /\ UNCHANGED <<container_versions, succeeded, returned>>
  /\ UNCHANGED verOthers

\* service.CommitSnapshot(snapshotter, container_id:vN, container_id): the runtime's answer is
\* passed through, so the call either succeeds or fails
CreateVersionCommit(c, ok) ==
  /\ cv[c].pc = "commit"
  /\ cv' = [cv EXCEPT ![c] = IF ok THEN [@ EXCEPT !.pc = "insert"] ELSE CvIdle]
  /\ UNCHANGED <<container_versions, succeeded, returned>>
  /\ UNCHANGED verOthers

\* insert of the version row; a refused insert fails the call
CreateVersionInsert(c) ==
  /\ cv[c].pc = "insert"
  /\ LET u == cv[c].user
         cid == ContainerID(u)
         v == cv[c].v
     IN IF VersionUnique(cid, v)
        THEN /\ container_versions' = InsertVersion(cid, VersionSnapshotName(cid, v), v)
             /\ succeeded' = [succeeded EXCEPT ![u] = @ + 1]
             /\ returned' = Append(returned,
                  [caller |-> c, container_id |-> cid, version |-> v,
                   maxBefore |-> IF VersionsOf(cid) = {} THEN 0 ELSE Max(VersionsOf(cid))])
             /\ cv' = [cv EXCEPT ![c] = CvIdle]
        ELSE /\ cv' = [cv EXCEPT ![c] = CvIdle]
             /\ UNCHANGED <<container_versions, succeeded, returned>>
  /\ UNCHANGED verOthers

VerNext ==
  \/ \E c \in Callers, u \in Users : CreateVersionBegin(c, u)
  \/ \E c \in Callers : CreateVersionNext(c)
  \/ \E c \in Callers, ok \in BOOLEAN : CreateVersionCommit(c, ok)
  \/ \E c \in Callers : CreateVersionInsert(c)

----------------------------------------------------------------------------
(* Strings: a text is a sequence of one-character strings *)

NL == "\n"

HasPrefix(s, p) == Len(s) >= Len(p) /\ SubSeq(s, 1, Len(p)) = p

TrimPrefix(s, p) == IF HasPrefix(s, p) THEN SubSeq(s, Len(p) + 1, Len(s)) ELSE s

\* index of the first occurrence of character c in s, 0 when there is none
IndexOf(s, c) ==
  IF \E i \in 1..Len(s) : s[i] = c
  THEN CHOOSE i \in 1..Len(s) : s[i] = c /\ \A j \in 1..(i - 1) : s[j] # c
  ELSE 0

\* strings.Split(s, sep) for a one-character sep: always at least one element
RECURSIVE Split(_, _)
Split(s, sep) ==
  LET i == IndexOf(s, sep)
  IN IF i = 0 THEN <<s>>
     ELSE <<SubSeq(s, 1, i - 1)>> \o Split(SubSeq(s, i + 1, Len(s)), sep)

\* strings.SplitN(s, sep, 2)
SplitN2(s, sep) ==
  LET i == IndexOf(s, sep)
  IN IF i = 0 THEN <<s>> ELSE <<SubSeq(s, 1, i - 1), SubSeq(s, i + 1, Len(s))>>

\* strings.Join(elems, sep)
RECURSIVE Join(_, _)
Join(elems, sep) ==
  IF Len(elems) = 0 THEN <<>>
  ELSE IF Len(elems) = 1 THEN elems[1]
  ELSE elems[1] \o sep \o Join(Tail(elems), sep)

\* concatenation of the elements of a sequence of strings
RECURSIVE Concat(_)
Concat(elems) == IF Len(elems) = 0 THEN <<>> ELSE elems[1] \o Concat(Tail(elems))

SpaceChars == {" ", "\t", "\r", NL}

\* strings.TrimSpace
RECURSIVE TrimLeftSpace(_)
TrimLeftSpace(s) ==
  IF Len(s) > 0 /\ s[1] \in SpaceChars THEN TrimLeftSpace(Tail(s)) ELSE s

RECURSIVE TrimRightSpace(_)
TrimRightSpace(s) ==
  IF Len(s) > 0 /\ s[Len(s)] \in SpaceChars THEN TrimRightSpace(SubSeq(s, 1, Len(s) - 1)) ELSE s

TrimSpace(s) == TrimRightSpace(TrimLeftSpace(s))

Digits == <<"0", "1", "2", "3", "4", "5", "6", "7", "8", "9">>

IsDigit(c) == \E d \in 1..10 : Digits[d] = c

DigitVal(c) == (CHOOSE d \in 1..10 : Digits[d] = c) - 1

RECURSIVE DigitsVal(_)
DigitsVal(s) == IF Len(s) = 0 THEN 0 ELSE DigitsVal(SubSeq(s, 1, Len(s) - 1)) * 10 + DigitVal(s[Len(s)])

\* strconv.Atoi: an optional sign and at least one decimal digit
Atoi(s) ==
  LET signed == Len(s) > 0 /\ s[1] \in {"+", "-"}
      ds == IF signed THEN Tail(s) ELSE s
  IN IF Len(ds) = 0 \/ \E i \in 1..Len(ds) : ~IsDigit(ds[i])
     THEN [ok |-> FALSE, n |-> 0]
     ELSE [ok |-> TRUE, n |-> IF signed /\ s[1] = "-" THEN 0 - DigitsVal(ds) ELSE DigitsVal(ds)]

\* fmt.Sprintf("%d", n) for n >= 0
RECURSIVE Itoa(_)
Itoa(n) == IF n < 10 THEN <<Digits[n + 1]>> ELSE Itoa(n \div 10) \o <<Digits[(n % 10) + 1]>>

----------------------------------------------------------------------------
(* applyUnifiedPatch: results are [err, text]; err = "" means success *)

Ok(t) == [err |-> "", text |-> t]

Err(e) == [err |-> e, text |-> <<>>]

\* lines[index:origStart] with index > origStart: the Go runtime faults
PanicSliceBounds == "panic: slice bounds out of range"

HunkMarker == <<"@", "@">>

parseUnifiedHunkHeader(header) ==
  LET trimmed == TrimSpace(TrimPrefix(header, HunkMarker))
  IN IF ~HasPrefix(trimmed, <<"-">>) THEN [ok |-> FALSE, n |-> 0]
     ELSE LET parts == SplitN2(trimmed, " ")
          IN IF Len(parts) < 2 THEN [ok |-> FALSE, n |-> 0]
             ELSE LET origPart == TrimPrefix(parts[1], <<"-">>)
                      origFields == SplitN2(origPart, ",")
                  IN Atoi(origFields[1])

\* case ' ': index >= len(lines) || lines[index] != text is a mismatch
ContextMatches(lines, index, text) == index < Len(lines) /\ lines[index + 1] = text

\* case '-': the same test for a deletion line
DeleteMatches(lines, index, text) == index < Len(lines) /\ lines[index + 1] = text

\* i and index are the Go (0-based) indices into patchLines and lines
RECURSIVE PatchOuter(_, _, _, _, _, _)
RECURSIVE PatchBody(_, _, _, _, _, _)

\* for i := 0; i < len(patchLines); i++ { ... }, and the code after the loop
PatchOuter(lines, pl, i, index, out, hunks) ==
  IF i >= Len(pl)
  THEN IF hunks = 0 THEN Err("patch contains no hunks")
       ELSE Ok(Join(out \o SubSeq(lines, index + 1, Len(lines)), <<NL>>))
  ELSE LET line == pl[i + 1]
       IN IF ~HasPrefix(line, HunkMarker)
          THEN PatchOuter(lines, pl, i + 1, index, out, hunks)
          ELSE LET h == parseUnifiedHunkHeader(line)
               IN IF ~h.ok THEN Err("invalid hunk header")
                  ELSE LET origStart == IF h.n - 1 < 0 THEN 0 ELSE h.n - 1
                       IN IF origStart > Len(lines) THEN Err("patch out of range")
                          ELSE IF index > origStart THEN Err(PanicSliceBounds)
                          ELSE PatchBody(lines, pl, i, origStart,
                                         out \o SubSeq(lines, index + 1, origStart), hunks + 1)

\* for i+1 < len(patchLines) { ... }
PatchBody(lines, pl, i, index, out, hunks) ==
  IF ~(i + 1 < Len(pl)) THEN PatchOuter(lines, pl, i + 1, index, out, hunks)
  ELSE LET next == pl[i + 2]
       IN IF HasPrefix(next, HunkMarker) THEN PatchOuter(lines, pl, i + 1, index, out, hunks)
          ELSE IF next = <<>>
               THEN IF i + 1 = Len(pl) - 1
                    THEN PatchOuter(lines, pl, i + 2, index, out, hunks)
                    ELSE Err("invalid patch line")
          ELSE IF next[1] = "\\" THEN PatchBody(lines, pl, i + 1, index, out, hunks)
          ELSE LET op == next[1]
                   text == Tail(next)
               IN CASE op = " " ->
                         IF ~ContextMatches(lines, index, text) THEN Err("patch context mismatch")
                         ELSE PatchBody(lines, pl, i + 1, index + 1, Append(out, text), hunks)
                    [] op = "-" ->
                         IF ~DeleteMatches(lines, index, text) THEN Err("patch delete mismatch")
                         ELSE PatchBody(lines, pl, i + 1, index + 1, out, hunks)
                    [] op = "+" -> PatchBody(lines, pl, i + 1, index, Append(out, text), hunks)
                    [] OTHER -> Err("invalid patch operation")

applyUnifiedPatch(original, patch) ==
  PatchOuter(Split(original, NL), Split(patch, NL), 0, 0, <<>>, 0)

----------------------------------------------------------------------------
(* unifiedDiff: difflib.GetUnifiedDiffString over strings.Split lines.
   Indices are 0-based and ranges half-open, as in the library. *)

DiffContext == 3

Min2(a, b) == IF a < b THEN a ELSE b

Max2(a, b) == IF a > b THEN a ELSE b

\* length of the common run of a from i and b from j inside [.., ahi) x [.., bhi)
RECURSIVE RunLen(_, _, _, _, _, _)
RunLen(a, b, i, j, ahi, bhi) ==
  IF i < ahi /\ j < bhi /\ a[i + 1] = b[j + 1] THEN 1 + RunLen(a, b, i + 1, j + 1, ahi, bhi) ELSE 0

\* the order in which findLongestMatch prefers block p (of length kp) to block q
PreferredMatch(p, kp, q, kq) ==
  \/ kp > kq
  \/ (kp = kq /\ p[1] < q[1])
  \/ (kp = kq /\ p[1] = q[1] /\ p[2] <= q[2])

MatchAt(a, b, p, ahi, bhi) == [i |-> p[1], j |-> p[2], k |-> RunLen(a, b, p[1], p[2], ahi, bhi)]

BestOf(a, b, cand, ahi, bhi) ==
  CHOOSE p \in cand : \A q \in cand :
    PreferredMatch(p, RunLen(a, b, p[1], p[2], ahi, bhi), q, RunLen(a, b, q[1], q[2], ahi, bhi))

LongestAmong(a, b, cand, alo, ahi, blo, bhi) ==
  IF cand = {} THEN [i |-> alo, j |-> blo, k |-> 0]
  ELSE MatchAt(a, b, BestOf(a, b, cand, ahi, bhi), ahi, bhi)

\* SequenceMatcher.findLongestMatch without junk: the longest block, of those the
\* one starting earliest in a, of those the one starting earliest in b
LongestMatch(a, b, alo, ahi, blo, bhi) ==
  LongestAmong(a, b,
               {p \in (alo..(ahi - 1)) \X (blo..(bhi - 1)) : a[p[1] + 1] = b[p[2] + 1]},
               alo, ahi, blo, bhi)

\* SequenceMatcher.GetMatchingBlocks, sorted, without the closing sentinel (with no
\* junk no two blocks are adjacent, so the merge of adjacent blocks changes nothing)
RECURSIVE MatchingBlocks(_, _, _, _, _, _)
RECURSIVE BlocksAround(_, _, _, _, _, _, _)

BlocksAround(a, b, alo, ahi, blo, bhi, m) ==
  IF m.k = 0 THEN <<>>
  ELSE (IF alo < m.i /\ blo < m.j THEN MatchingBlocks(a, b, alo, m.i, blo, m.j) ELSE <<>>)
       \o <<m>>
       \o (IF m.i + m.k < ahi /\ m.j + m.k < bhi
           THEN MatchingBlocks(a, b, m.i + m.k, ahi, m.j + m.k, bhi) ELSE <<>>)

MatchingBlocks(a, b, alo, ahi, blo, bhi) ==
  BlocksAround(a, b, alo, ahi, blo, bhi, LongestMatch(a, b, alo, ahi, blo, bhi))

OpCode(tag, i1, i2, j1, j2) == [tag |-> tag, i1 |-> i1, i2 |-> i2, j1 |-> j1, j2 |-> j2]

\* the tag of the change between (i, j) and the next matching block m
ChangeTag(i, j, m) ==
  IF i < m.i /\ j < m.j THEN "r" ELSE IF i < m.i THEN "d" ELSE IF j < m.j THEN "i" ELSE ""

ChangeCodes(tag, i, j, m) == IF tag # "" THEN <<OpCode(tag, i, m.i, j, m.j)>> ELSE <<>>

EqualCodes(m) == IF m.k > 0 THEN <<OpCode("e", m.i, m.i + m.k, m.j, m.j + m.k)>> ELSE <<>>

\* SequenceMatcher.GetOpCodes: the loop over the matching blocks and the sentinel
RECURSIVE OpCodesFrom(_, _, _)
OpCodesFrom(blocks, i, j) ==
  IF Len(blocks) = 0 THEN <<>>
  ELSE ChangeCodes(ChangeTag(i, j, blocks[1]), i, j, blocks[1])
       \o EqualCodes(blocks[1])
       \o OpCodesFrom(Tail(blocks), blocks[1].i + blocks[1].k, blocks[1].j + blocks[1].k)

GetOpCodes(a, b) ==
  OpCodesFrom(MatchingBlocks(a, b, 0, Len(a), 0, Len(b)) \o <<[i |-> Len(a), j |-> Len(b), k |-> 0]>>, 0, 0)

\* the head of an equal run cut to n lines, and its tail cut to n lines
HeadOf(c, n) == OpCode(c.tag, c.i1, Min2(c.i2, c.i1 + n), c.j1, Min2(c.j2, c.j1 + n))

TailOf(c, n) == OpCode(c.tag, Max2(c.i1, c.i2 - n), c.i2, Max2(c.j1, c.j2 - n), c.j2)

\* the grouping loop of GetGroupedOpCodes
RECURSIVE GroupLoop(_, _, _, _)
GroupLoop(codes, n, groups, group) ==
  IF Len(codes) = 0
  THEN IF Len(group) > 0 /\ ~(Len(group) = 1 /\ group[1].tag = "e")
       THEN Append(groups, group) ELSE groups
  ELSE IF codes[1].tag = "e" /\ codes[1].i2 - codes[1].i1 > n + n
       THEN GroupLoop(Tail(codes), n, Append(groups, Append(group, HeadOf(codes[1], n))),
                      <<TailOf(codes[1], n)>>)
       ELSE GroupLoop(Tail(codes), n, groups, Append(group, codes[1]))

\* if len(codes) == 0 { codes = []OpCode{{'e', 0, 1, 0, 1}} }
DefaultCodes(codes) == IF Len(codes) = 0 THEN <<OpCode("e", 0, 1, 0, 1)>> ELSE codes

\* a leading group that shows no change keeps its last n lines
FixLeading(codes, n) ==
  IF codes[1].tag = "e" THEN [codes EXCEPT ![1] = TailOf(codes[1], n)] ELSE codes

\* a trailing group that shows no change keeps its first n lines
FixTrailing(codes, n) ==
  IF codes[Len(codes)].tag = "e"
  THEN [codes EXCEPT ![Len(codes)] = HeadOf(codes[Len(codes)], n)] ELSE codes

\* SequenceMatcher.GetGroupedOpCodes(n)
GetGroupedOpCodes(a, b, n) ==
  GroupLoop(FixTrailing(FixLeading(DefaultCodes(GetOpCodes(a, b)), n), n), n, <<>>, <<>>)

\* formatRangeUnified(start, stop)
formatRangeUnified(start, stop) ==
  LET length == stop - start
  IN IF length = 1 THEN Itoa(start + 1)
     ELSE Itoa(IF length = 0 THEN start ELSE start + 1) \o <<",">> \o Itoa(length)

\* the body of one hunk: every line written as its prefix followed by the line itself
RECURSIVE PrefixedLines(_, _, _, _)
PrefixedLines(prefix, lines, from, to) ==
  IF from >= to THEN <<>>
  ELSE <<prefix>> \o lines[from + 1] \o PrefixedLines(prefix, lines, from + 1, to)

\* the lines one opcode writes: ' ' for equal, '-' of a then '+' of b for a change
OpCodeLines(a, b, c) ==
  IF c.tag = "e" THEN PrefixedLines(" ", a, c.i1, c.i2)
  ELSE (IF c.tag \in {"r", "d"} THEN PrefixedLines("-", a, c.i1, c.i2) ELSE <<>>)
       \o (IF c.tag \in {"r", "i"} THEN PrefixedLines("+", b, c.j1, c.j2) ELSE <<>>)

RECURSIVE HunkBody(_, _, _)
HunkBody(a, b, g) ==
  IF Len(g) = 0 THEN <<>>
  ELSE OpCodeLines(a, b, g[1]) \o HunkBody(a, b, Tail(g))

HunkText(a, b, g) ==
  <<"@", "@", " ", "-">> \o formatRangeUnified(g[1].i1, g[Len(g)].i2)
    \o <<" ", "+">> \o formatRangeUnified(g[1].j1, g[Len(g)].j2)
    \o <<" ", "@", "@", NL>> \o HunkBody(a, b, g)

\* difflib.WriteUnifiedDiff with FromFile "a"+path and ToFile "b"+path: nothing at all
\* when there is no group, else the two file lines and the hunks
WriteGroups(a, b, fromFile, toFile, groups) ==
  IF Len(groups) = 0 THEN <<>>
  ELSE <<"-", "-", "-", " ">> \o fromFile \o <<NL>>
       \o <<"+", "+", "+", " ">> \o toFile \o <<NL>>
       \o Concat([k \in 1..Len(groups) |-> HunkText(a, b, groups[k])])

WriteUnifiedDiff(a, b, fromFile, toFile, n) ==
  WriteGroups(a, b, fromFile, toFile, GetGroupedOpCodes(a, b, n))

unifiedDiff(containerPath, oldContent, newContent) ==
  WriteUnifiedDiff(Split(oldContent, NL), Split(newContent, NL),
                   <<"a">> \o containerPath, <<"b">> \o containerPath, DiffContext)

----------------------------------------------------------------------------
(* Diff of a version-side text against a live text, then ApplyPatch of the
   diff onto the version-side text *)

MaxTextLen == 3     \* characters in a text

TextChars == {"a", "b", NL}

RECURSIVE SeqsUpTo(_, _)
SeqsUpTo(S, n) ==
  IF n = 0 THEN {<<>>}
  ELSE LET shorter == SeqsUpTo(S, n - 1)
       IN shorter \cup {Append(s, c) : s \in {t \in shorter : Len(t) = n - 1}, c \in S}

Texts == SeqsUpTo(TextChars, MaxTextLen)

DiffPath == <<"/", "d", "/", "f">>

DiffIdle ==
  /\ dOld = <<>> /\ dNew = <<>> /\ dPatch = <<>> /\ dResult = Ok(<<>>) /\ dPc = "idle"

DiffStart ==
  /\ dOld \in Texts /\ dNew \in Texts
  /\ dPatch = <<>> /\ dResult = Ok(<<>>) /\ dPc = "start"

\* FSHandler.Diff: diffText = unifiedDiff(containerPath, versionContent, currentContent)
DiffProduce ==
  /\ dPc = "start"
  /\ dPatch' = unifiedDiff(DiffPath, dOld, dNew)
  /\ dPc' = "diffed"
  /\ UNCHANGED <<dOld, dNew, dResult>>
  /\ UNCHANGED diffOthers

\* FSHandler.ApplyPatch: updated, err = applyUnifiedPatch(orig, patch)
DiffApply ==
  /\ dPc = "diffed"
  /\ dResult' = applyUnifiedPatch(dOld, dPatch)
  /\ dPc' = "applied"
  /\ UNCHANGED <<dOld, dNew, dPatch>>
  /\ UNCHANGED diffOthers

DiffNext == DiffProduce \/ DiffApply

----------------------------------------------------------------------------
(* Lexical paths (package path): a path is a text *)

Slash == <<"/">>

Dot == <<".">>

DotDot == <<".", ".">>

\* the element stack of path.Clean after one more element
CleanPush(out, seg, rooted) ==
  IF seg = <<>> \/ seg = Dot THEN out
  ELSE IF seg = DotDot
       THEN IF Len(out) > 0 /\ out[Len(out)] # DotDot THEN SubSeq(out, 1, Len(out) - 1)
            ELSE IF rooted THEN out ELSE Append(out, DotDot)
       ELSE Append(out, seg)

RECURSIVE CleanSegs(_, _, _)
CleanSegs(segs, out, rooted) ==
  IF Len(segs) = 0 THEN out ELSE CleanSegs(Tail(segs), CleanPush(out, segs[1], rooted), rooted)

IsAbs(p) == Len(p) > 0 /\ p[1] = "/"

CleanJoin(out, rooted) ==
  IF rooted THEN Slash \o Join(out, Slash)
  ELSE IF Len(out) = 0 THEN Dot ELSE Join(out, Slash)

\* path.Clean
Clean(p) ==
  IF Len(p) = 0 THEN Dot
  ELSE CleanJoin(CleanSegs(Split(p, "/"), <<>>, IsAbs(p)), IsAbs(p))

NonEmpty(s) == s # <<>>

\* path.Join(elems...): the non-empty elements joined by "/" and cleaned
PathJoinAll(elems) ==
  IF SelectSeq(elems, NonEmpty) = <<>> THEN <<>>
  ELSE Clean(Join(SelectSeq(elems, NonEmpty), Slash))

PathJoin(a, b) == PathJoinAll(<<a, b>>)

pathWithin(target, base) ==
  IF base = Slash THEN HasPrefix(target, Slash)
  ELSE IF target = base THEN TRUE
  ELSE IF HasPrefix(target, base) THEN Len(target) > Len(base) /\ target[Len(base) + 1] = "/"
  ELSE FALSE

\* return path.Join(mountPath, reqClean), nil
JoinUnderMount(mountPath, reqClean) == [err |-> "", path |-> PathJoin(mountPath, reqClean)]

ResolveClean(mountPath, requestPath, reqClean) ==
  IF mountPath = Dot \/ ~HasPrefix(mountPath, Slash)
  THEN [err |-> "data mount must be absolute", path |-> <<>>]
  ELSE IF requestPath = <<>> THEN [err |-> "", path |-> mountPath]
  ELSE IF IsAbs(reqClean)
       THEN IF ~pathWithin(reqClean, mountPath)
            THEN [err |-> "path outside data mount", path |-> <<>>]
            ELSE [err |-> "", path |-> reqClean]
  ELSE JoinUnderMount(mountPath, reqClean)

resolveContainerPath(dataMount, requestPath) ==
  ResolveClean(Clean(dataMount), requestPath, Clean(requestPath))

----------------------------------------------------------------------------
(* FSHandler.Read up to its first use of the host path *)

MaxSegs == 4        \* elements in a request path

RequestSegs == {<<"d">>, <<"e">>, <<"d", "d">>, DotDot, Dot, <<>>}

RequestPaths ==
  {Join(segs, Slash) : segs \in SeqsUpTo(RequestSegs, MaxSegs)}
    \cup {Slash \o Join(segs, Slash) : segs \in SeqsUpTo(RequestSegs, MaxSegs)}

\* mcp.data_mount of the configuration: "/d" stands for /data
DataMounts == {<<"/", "d">>, Slash, <<"d">>}

PathIdle ==
  /\ pMount = <<>> /\ pRequest = <<>> /\ pPc = "idle" /\ pContainerPath = <<>>
  /\ pStatus = 0 /\ pHostReads = {}

PathStart ==
  /\ pMount \in DataMounts /\ pRequest \in RequestPaths
  /\ pPc = "start" /\ pContainerPath = <<>> /\ pStatus = 0 /\ pHostReads = {}

\* containerPath, err := resolveContainerPath(h.dataMount(), c.QueryParam("path"))
ReadResolvePath ==
  /\ pPc = "start"
  /\ IF resolveContainerPath(pMount, pRequest).err # ""
     THEN pPc' = "done" /\ pStatus' = 400 /\ UNCHANGED pContainerPath
     ELSE /\ pPc' = "resolved"
          /\ pContainerPath' = resolveContainerPath(pMount, pRequest).path
          /\ UNCHANGED pStatus
  /\ UNCHANGED <<pMount, pRequest, pHostReads>>
  /\ UNCHANGED pathOthers

\* hostPath under the mount directory, then os.Stat(hostPath) and os.ReadFile(hostPath)
ReadHostFile(found) ==
  /\ pPc = "resolved"
  /\ pHostReads' = pHostReads \cup {TrimPrefix(pContainerPath, Slash)}
  /\ pStatus' = IF found THEN 200 ELSE 404
  /\ pPc' = "done"
  /\ UNCHANGED <<pMount, pRequest, pContainerPath>>
  /\ UNCHANGED pathOthers

PathNext == ReadResolvePath \/ \E found \in BOOLEAN : ReadHostFile(found)

----------------------------------------------------------------------------
(* The host file tree and the kernel's path walk *)

MaxLinksWalked == 3      \* symlinks expanded before ELOOP

MountDir == <<"/", "m">>

DirNode == [kind |-> "dir", dest |-> <<>>]

FileNode == [kind |-> "file", dest |-> <<>>]

AbsentNode == [kind |-> "absent", dest |-> <<>>]

LinkNode(dest) == [kind |-> "link", dest |-> dest]

Node(fs, p) == IF p \in DOMAIN fs THEN fs[p] ELSE AbsentNode

RECURSIVE Walk(_, _, _, _, _)

WalkLink(fs, cur, dest, rest, followLast, links) ==
  IF links >= MaxLinksWalked THEN [st |-> "eloop", loc |-> cur]
  ELSE Walk(fs, IF IsAbs(dest) THEN Slash ELSE cur, Split(dest, "/") \o rest, followLast, links + 1)

WalkEntry(fs, cur, cand, rest, followLast, links) ==
  IF Node(fs, cand).kind = "absent"
  THEN [st |-> "enoent", loc |-> PathJoinAll(<<cand>> \o rest)]
  ELSE IF Node(fs, cand).kind = "link" /\ (rest # <<>> \/ followLast)
       THEN WalkLink(fs, cur, Node(fs, cand).dest, rest, followLast, links)
  ELSE IF Node(fs, cand).kind = "file" /\ rest # <<>>
       THEN [st |-> "enotdir", loc |-> cand]
  ELSE Walk(fs, cand, rest, followLast, links)

\* the kernel walks the elements from directory cur, following symlinks
Walk(fs, cur, rem, followLast, links) ==
  IF rem = <<>> THEN [st |-> "ok", loc |-> cur]
  ELSE IF rem[1] = <<>> \/ rem[1] = Dot THEN Walk(fs, cur, Tail(rem), followLast, links)
  ELSE IF rem[1] = DotDot THEN Walk(fs, PathJoin(cur, DotDot), Tail(rem), followLast, links)
  ELSE WalkEntry(fs, cur, PathJoin(cur, rem[1]), Tail(rem), followLast, links)

\* os.Stat and the like
Stat(fs, p) == Walk(fs, Slash, Split(p, "/"), TRUE, 0)

\* os.Lstat
Lstat(fs, p) == Walk(fs, Slash, Split(p, "/"), FALSE, 0)

\* filepath.Dir and filepath.Base of a clean path
LastSlash(p) == CHOOSE i \in 1..Len(p) : p[i] = "/" /\ \A j \in (i + 1)..Len(p) : p[j] # "/"

FileDir(p) == Clean(SubSeq(p, 1, LastSlash(p)))

FileBase(p) == SubSeq(p, LastSlash(p) + 1, Len(p))

----------------------------------------------------------------------------
(* securejoin.SecureJoin: results are [err, path] *)

maxSymlinkLimit == MaxLinksWalked

NextPart(remainingPath) ==
  IF IndexOf(remainingPath, "/") = 0 THEN remainingPath
  ELSE SubSeq(remainingPath, 1, IndexOf(remainingPath, "/") - 1)

RestAfterPart(remainingPath) ==
  IF IndexOf(remainingPath, "/") = 0 THEN <<>>
  ELSE SubSeq(remainingPath, IndexOf(remainingPath, "/") + 1, Len(remainingPath))

\* securejoin.IsNotExist: ENOENT or ENOTDIR
IsNotExist(fi) == fi.st \in {"enoent", "enotdir"}

RECURSIVE SecureJoinLoop(_, _, _, _, _)

SecureJoinLink(fs, root, currentPath, dest, remainingPath, linksWalked) ==
  IF linksWalked + 1 > maxSymlinkLimit THEN [err |-> "ELOOP", path |-> <<>>]
  ELSE SecureJoinLoop(fs, root, IF IsAbs(dest) THEN <<>> ELSE currentPath,
                      dest \o Slash \o remainingPath, linksWalked + 1)

SecureJoinStat(fs, root, currentPath, nextPath, remainingPath, linksWalked, fi) ==
  IF fi.st # "ok" /\ ~IsNotExist(fi) THEN [err |-> fi.st, path |-> <<>>]
  ELSE IF IsNotExist(fi) \/ Node(fs, fi.loc).kind # "link"
       THEN SecureJoinLoop(fs, root, nextPath, remainingPath, linksWalked)
  ELSE SecureJoinLink(fs, root, currentPath, Node(fs, fi.loc).dest, remainingPath, linksWalked)

SecureJoinNext(fs, root, currentPath, nextPath, remainingPath, linksWalked) ==
  IF nextPath = Slash THEN SecureJoinLoop(fs, root, <<>>, remainingPath, linksWalked)
  ELSE SecureJoinStat(fs, root, currentPath, nextPath, remainingPath, linksWalked,
                      Lstat(fs, root \o Slash \o nextPath))

\* for remainingPath != "" { ... }, and the two joins after the loop
SecureJoinLoop(fs, root, currentPath, remainingPath, linksWalked) ==
  IF remainingPath = <<>>
  THEN [err |-> "", path |-> PathJoin(root, PathJoin(Slash, currentPath))]
  ELSE SecureJoinNext(fs, root, currentPath,
                      PathJoinAll(<<Slash, currentPath, NextPart(remainingPath)>>),
                      RestAfterPart(remainingPath), linksWalked)

SecureJoin(fs, root, unsafePath) == SecureJoinLoop(fs, root, <<>>, unsafePath, 0)

resolveHostPath(fs, mountDir, containerPath) ==
  SecureJoin(fs, mountDir, TrimPrefix(containerPath, Slash))

----------------------------------------------------------------------------
(* Read and WriteAtomic from the request path to the file the OS touches *)

MaxJoinSegs == 3     \* elements in a request path

JoinSegs == {<<"d">>, <<"e">>, DotDot}

JoinRequests ==
  {Join(segs, Slash) : segs \in SeqsUpTo(JoinSegs, MaxJoinSegs)}
    \cup {Slash \o Join(segs, Slash) : segs \in SeqsUpTo(JoinSegs, MaxJoinSegs)}

DefaultDataMount == <<"/", "d">>

\* what a symlink inside the snapshot may point at
LinkDests ==
  {<<"/", "e">>, <<".", ".", "/", "e">>, <<".", ".", "/", ".", ".", "/", "e">>,
   DotDot, <<"e">>, <<"/", "d", "/", "e">>, <<"d">>}

Entries == {DirNode, FileNode} \cup {LinkNode(d) : d \in LinkDests}

\* the host outside the mount directory: /e and the file /e/e
HostTree ==
  (Slash :> DirNode) @@ (MountDir :> DirNode) @@ (<<"/", "e">> :> DirNode)
    @@ (<<"/", "e", "/", "e">> :> FileNode)

SnapData == <<"/", "m", "/", "d">>

SnapDataE == <<"/", "m", "/", "d", "/", "e">>

SnapE == <<"/", "m", "/", "e">>

\* the mounted snapshot: /m/d, /m/d/e and /m/e, each a directory, a file, a symlink or absent
Snapshots ==
  {(SnapData :> a) @@ (SnapDataE :> b) @@ (SnapE :> c) @@ HostTree :
     a \in Entries \ {FileNode}, b \in Entries \cup {AbsentNode}, c \in Entries \cup {AbsentNode}}

WellFormed(fs) == fs[SnapDataE] # AbsentNode => fs[SnapData] = DirNode

JoinIdle ==
  /\ jFs = <<>> /\ jRequest = <<>> /\ jPc = "idle" /\ jContainerPath = <<>>
  /\ jHostPath = <<>> /\ jStatus = 0 /\ jAccess = {}

JoinStart ==
  /\ jFs \in {fs \in Snapshots : WellFormed(fs)}
  /\ jRequest \in JoinRequests
  /\ jPc = "start" /\ jContainerPath = <<>> /\ jHostPath = <<>> /\ jStatus = 0
  /\ jAccess = {}

\* containerPath, err := resolveContainerPath(h.dataMount(), path)
JoinResolveContainer ==
  /\ jPc = "start"
  /\ IF resolveContainerPath(DefaultDataMount, jRequest).err # ""
     THEN jPc' = "done" /\ jStatus' = 400 /\ UNCHANGED jContainerPath
     ELSE /\ jPc' = "container"
          /\ jContainerPath' = resolveContainerPath(DefaultDataMount, jRequest).path
          /\ UNCHANGED jStatus
  /\ UNCHANGED <<jFs, jRequest, jHostPath, jAccess>>
  /\ UNCHANGED joinOthers

\* hostPath, err := resolveHostPath(mount.Dir, containerPath)
JoinResolveHost ==
  /\ jPc = "container"
  /\ IF resolveHostPath(jFs, MountDir, jContainerPath).err # ""
     THEN jPc' = "done" /\ jStatus' = 400 /\ UNCHANGED jHostPath
     ELSE /\ jPc' = "host"
          /\ jHostPath' = resolveHostPath(jFs, MountDir, jContainerPath).path
          /\ UNCHANGED jStatus
  /\ UNCHANGED <<jFs, jRequest, jContainerPath, jAccess>>
  /\ UNCHANGED joinOthers

\* Read: os.Stat(hostPath), os.ReadFile(hostPath)
JoinRead ==
  /\ jPc = "host"
  /\ jAccess' = {[op |-> "stat", st |-> Stat(jFs, jHostPath).st, loc |-> Stat(jFs, jHostPath).loc]}
  /\ jPc' = "done"
  /\ UNCHANGED <<jFs, jRequest, jContainerPath, jHostPath, jStatus>>
  /\ UNCHANGED joinOthers

\* the name os.CreateTemp(dir, ".tmp-*") makes up
TempName == <<".", "t">>

\* os.MkdirAll(dir, 0o755) and os.CreateTemp(dir, ".tmp-*"): the temporary file
CreateTemp(fs, dir) ==
  [op |-> "temp", st |-> Stat(fs, dir).st,
   loc |-> IF Stat(fs, dir).st \in {"ok", "enoent"}
           THEN PathJoin(Stat(fs, dir).loc, TempName) ELSE Stat(fs, dir).loc]

\* os.Rename(tmpName, targetPath): the name it replaces
Rename(fs, dir, targetPath) ==
  [op |-> "rename", st |-> Stat(fs, dir).st, loc |-> PathJoin(Stat(fs, dir).loc, FileBase(targetPath))]

\* the host paths writeFileAtomic touches
writeFileAtomicPaths(fs, targetPath, dir) ==
  IF Stat(fs, dir).st \in {"ok", "enoent"}
  THEN {CreateTemp(fs, dir), Rename(fs, dir, targetPath)}
  ELSE {CreateTemp(fs, dir)}

\* WriteAtomic: writeFileAtomic(hostPath, data, mode, mtime)
JoinWrite ==
  /\ jPc = "host"
  /\ jAccess' = writeFileAtomicPaths(jFs, jHostPath, FileDir(jHostPath))
  /\ jPc' = "done"
  /\ UNCHANGED <<jFs, jRequest, jContainerPath, jHostPath, jStatus>>
  /\ UNCHANGED joinOthers

JoinNext == JoinResolveContainer \/ JoinResolveHost \/ JoinRead \/ JoinWrite

----------------------------------------------------------------------------
(* Files: one directory holding the target and the temporary file *)

NumReaders == 2      \* concurrent Read requests
MaxFileLen == 2      \* bytes in a file

Readers == 1..NumReaders

Target == "p"

Tmp == ".tmp"

Contents == SeqsUpTo({"a", "b"}, MaxFileLen)

\* what the target holds before the request
OldContents == SeqsUpTo({"a"}, MaxFileLen)

ModeDefault == 420       \* 0o644

ModeTemp == 384          \* 0o600

ModeOther == 493         \* 0o755

\* a write of one byte at offset off
WriteAt(data, off, b) == IF off < Len(data) THEN [data EXCEPT ![off + 1] = b] ELSE Append(data, b)

\* io.Copy(tmp, ...) writes through the handle of the temporary file
CopyInodeInPlace(tmpIno, targetIno) == targetIno

CopyInode(tmpIno, targetIno) == tmpIno

WIdle ==
  [op |-> "none", pc |-> "idle", old |-> <<>>, data |-> <<>>, mode |-> 0, modTime |-> 0,
   oldMode |-> 0, patch |-> <<>>, orig |-> <<>>, err |-> "", status |-> 0, off |-> 0, tmp |-> 0,
   failed |-> FALSE, renamed |-> FALSE]

RIdle == [pc |-> "idle", size |-> 0, ino |-> 0, pos |-> 0, buf |-> <<>>, after |-> FALSE, status |-> 0]

FsIdle ==
  /\ fDir = [n \in {Target, Tmp} |-> 0] /\ fInodes = <<>> /\ w = WIdle
  /\ rd = [r \in Readers |-> RIdle]

\* the target exists with content old; one request is about to call writeFileAtomic
FsStartWrite ==
  /\ fDir = [n \in {Target, Tmp} |-> IF n = Target THEN 1 ELSE 0]
  /\ \E old \in OldContents, new \in Contents, m \in {ModeDefault, ModeOther} :
       /\ fInodes = <<[data |-> old, mode |-> ModeDefault, mtime |-> 0]>>
       /\ w = [WIdle EXCEPT !.op = "write", !.pc = "mkdir", !.old = old, !.data = new,
                            !.mode = m, !.modTime = 1]
  /\ rd = [r \in Readers |-> RIdle]

\* a failure that returns without the deferred Remove
WFailKeepsTemp == [w EXCEPT !.pc = "done", !.failed = TRUE, !.status = 500]

\* a step that failed after the temporary file was made: the deferred Remove is next
WFail == [w EXCEPT !.pc = "remove", !.failed = TRUE]

\* os.MkdirAll(dir, 0o755)
WMkdirAll(ok) ==
  /\ w.pc = "mkdir"
  /\ w' = IF ok THEN [w EXCEPT !.pc = "create"] ELSE [w EXCEPT !.pc = "done", !.status = 500]
  /\ UNCHANGED <<fDir, fInodes, rd>>
  /\ UNCHANGED fsOthers

\* os.CreateTemp(dir, ".tmp-*")
WCreateTemp(ok) ==
  /\ w.pc = "create"
  /\ IF ok
     THEN /\ fInodes' = Append(fInodes, [data |-> <<>>, mode |-> ModeTemp, mtime |-> 0])
          /\ fDir' = [fDir EXCEPT ![Tmp] = Len(fInodes) + 1]
          /\ w' = [w EXCEPT !.pc = "copy", !.tmp = Len(fInodes) + 1]
     ELSE /\ w' = [w EXCEPT !.pc = "done", !.status = 500]
          /\ UNCHANGED <<fDir, fInodes>>
  /\ UNCHANGED rd
  /\ UNCHANGED fsOthers

\* io.Copy(tmp, bytes.NewReader(data)), a byte at a time
WCopy(ok) ==
  /\ w.pc = "copy"
  /\ IF ~ok THEN w' = WFail /\ UNCHANGED fInodes
     ELSE IF w.off < Len(w.data)
          THEN /\ fInodes' = [fInodes EXCEPT ![CopyInode(w.tmp, fDir[Target])].data =
                                                 WriteAt(@, w.off, w.data[w.off + 1])]
               /\ w' = [w EXCEPT !.off = w.off + 1]
     ELSE w' = [w EXCEPT !.pc = "sync"] /\ UNCHANGED fInodes
  /\ UNCHANGED <<fDir, rd>>
  /\ UNCHANGED fsOthers

\* tmp.Sync()
WSync(ok) ==
  /\ w.pc = "sync"
  /\ w' = IF ok THEN [w EXCEPT !.pc = "chmod"] ELSE WFail
  /\ UNCHANGED <<fDir, fInodes, rd>>
  /\ UNCHANGED fsOthers

\* tmp.Chmod(mode)
WChmod(ok) ==
  /\ w.pc = "chmod"
  /\ IF ok
     THEN /\ fInodes' = [fInodes EXCEPT ![w.tmp].mode = w.mode]
          /\ w' = [w EXCEPT !.pc = "close"]
     ELSE w' = WFail /\ UNCHANGED fInodes
  /\ UNCHANGED <<fDir, rd>>
  /\ UNCHANGED fsOthers

\* tmp.Close(); then if modTime != nil { os.Chtimes(tmpName, ...) }
WClose(ok) ==
  /\ w.pc = "close"
  /\ w' = IF ~ok THEN WFail
          ELSE IF w.modTime # 0 THEN [w EXCEPT !.pc = "chtimes"] ELSE [w EXCEPT !.pc = "rename"]
  /\ UNCHANGED <<fDir, fInodes, rd>>
  /\ UNCHANGED fsOthers

\* os.Chtimes(tmpName, *modTime, *modTime)
WChtimes(ok) ==
  /\ w.pc = "chtimes"
  /\ IF ok /\ fDir[Tmp] # 0
     THEN /\ fInodes' = [fInodes EXCEPT ![fDir[Tmp]].mtime = w.modTime]
          /\ w' = [w EXCEPT !.pc = "rename"]
     ELSE w' = WFail /\ UNCHANGED fInodes
  /\ UNCHANGED <<fDir, rd>>
  /\ UNCHANGED fsOthers

\* os.Rename(tmpName, targetPath); then the Chtimes of the target, its error dropped
WRename(ok) ==
  /\ w.pc = "rename"
  /\ IF ok /\ fDir[Tmp] # 0
     THEN /\ fDir' = [fDir EXCEPT ![Target] = fDir[Tmp], ![Tmp] = 0]
          /\ w' = [w EXCEPT !.pc = "chtimes2", !.renamed = TRUE]
     ELSE w' = WFail /\ UNCHANGED fDir
  /\ UNCHANGED <<fInodes, rd>>
  /\ UNCHANGED fsOthers

\* if modTime != nil { _ = os.Chtimes(targetPath, ...) }
WChtimesTarget(ok) ==
  /\ w.pc = "chtimes2"
  /\ IF ok /\ w.modTime # 0 /\ fDir[Target] # 0
     THEN fInodes' = [fInodes EXCEPT ![fDir[Target]].mtime = w.modTime]
     ELSE UNCHANGED fInodes
  /\ w' = [w EXCEPT !.pc = "remove"]
  /\ UNCHANGED <<fDir, rd>>
  /\ UNCHANGED fsOthers

\* defer os.Remove(tmpName), and the handler's response
WRemove ==
  /\ w.pc = "remove"
  /\ fDir' = [fDir EXCEPT ![Tmp] = 0]
  /\ w' = [w EXCEPT !.pc = "done", !.status = IF w.failed THEN 500 ELSE 204]
  /\ UNCHANGED <<fInodes, rd>>
  /\ UNCHANGED fsOthers

WriteNext ==
  \/ \E ok \in BOOLEAN : WMkdirAll(ok)
  \/ \E ok \in BOOLEAN : WCreateTemp(ok)
  \/ \E ok \in BOOLEAN : WCopy(ok)
  \/ \E ok \in BOOLEAN : WSync(ok)
  \/ \E ok \in BOOLEAN : WChmod(ok)
  \/ \E ok \in BOOLEAN : WClose(ok)
  \/ \E ok \in BOOLEAN : WChtimes(ok)
  \/ \E ok \in BOOLEAN : WRename(ok)
  \/ \E ok \in BOOLEAN : WChtimesTarget(ok)
  \/ WRemove

----------------------------------------------------------------------------
(* FSHandler.Read on the target *)

\* info, err := os.Stat(hostPath)
RStat(r) ==
  /\ rd[r].pc = "idle"
  /\ rd' = [rd EXCEPT ![r] =
       IF fDir[Target] = 0 THEN [@ EXCEPT !.pc = "done", !.status = 404]
       ELSE [@ EXCEPT !.pc = "open", !.size = Len(fInodes[fDir[Target]].data),
                      !.after = w.renamed]]
  /\ UNCHANGED <<fDir, fInodes, w>>
  /\ UNCHANGED fsOthers

\* os.ReadFile(hostPath): the open
ROpen(r) ==
  /\ rd[r].pc = "open"
  /\ rd' = [rd EXCEPT ![r] =
       IF fDir[Target] = 0 THEN [@ EXCEPT !.pc = "done", !.status = 500]
       ELSE [@ EXCEPT !.pc = "read", !.ino = fDir[Target]]]
  /\ UNCHANGED <<fDir, fInodes, w>>
  /\ UNCHANGED fsOthers

\* os.ReadFile(hostPath): a read of one byte, or end of file and the response
RRead(r) ==
  /\ rd[r].pc = "read"
  /\ rd' = [rd EXCEPT ![r] =
       IF rd[r].pos < Len(fInodes[rd[r].ino].data)
       THEN [@ EXCEPT !.pos = @ + 1, !.buf = Append(@, fInodes[rd[r].ino].data[rd[r].pos + 1])]
       ELSE [@ EXCEPT !.pc = "done", !.status = 200]]
  /\ UNCHANGED <<fDir, fInodes, w>>
  /\ UNCHANGED fsOthers

ReadNext == \E r \in Readers : RStat(r) \/ ROpen(r) \/ RRead(r)

FsNext == WriteNext \/ ReadNext

----------------------------------------------------------------------------
(* FSHandler.ApplyPatch on the target *)

MaxPatchLines == 2   \* body lines in a patch

PatchHeaders ==
  {<<"@", "@", " ", "-", "1", " ", "+", "1", " ", "@", "@">>,
   <<"@", "@", " ", "-", "2", " ", "+", "2", " ", "@", "@">>}

PatchBodyLines == {<<" ", "a">>, <<" ", "b">>, <<"-", "a">>, <<"-", "b">>, <<"+", "b">>}

Patches ==
  {Join(<<h>> \o body, <<NL>>) :
     h \in PatchHeaders, body \in SeqsUpTo(PatchBodyLines, MaxPatchLines) \ {<<>>}}

\* the target holds orig (or is absent); one ApplyPatch request is past its path checks
FsStartPatch ==
  /\ \E orig \in Texts, patch \in Patches, m0 \in {ModeDefault, ModeOther}, exists \in BOOLEAN :
       /\ fInodes = IF exists THEN <<[data |-> orig, mode |-> m0, mtime |-> 0]>> ELSE <<>>
       /\ fDir = [n \in {Target, Tmp} |-> IF n = Target /\ exists THEN 1 ELSE 0]
       /\ w = [WIdle EXCEPT !.op = "patch", !.pc = "readorig", !.patch = patch,
                            !.old = IF exists THEN orig ELSE <<>>,
                            !.oldMode = IF exists THEN m0 ELSE 0]
  /\ rd = [r \in Readers |-> RIdle]

\* orig, err := os.ReadFile(hostPath)
PReadOrig ==
  /\ w.pc = "readorig"
  /\ w' = IF fDir[Target] = 0 THEN [w EXCEPT !.pc = "done", !.status = 404]
          ELSE [w EXCEPT !.pc = "apply", !.orig = fInodes[fDir[Target]].data]
  /\ UNCHANGED <<fDir, fInodes, rd>>
  /\ UNCHANGED fsOthers

\* an ApplyPatch that writes whatever applyUnifiedPatch returned
PatchAcceptedAlways(res) == TRUE

\* if err != nil { return 400 }
PatchAccepted(res) == res.err = ""

\* updated, err := applyUnifiedPatch(string(orig), req.Patch)
PApply ==
  /\ w.pc = "apply"
  /\ w' = IF PatchAccepted(applyUnifiedPatch(w.orig, w.patch))
          THEN [w EXCEPT !.pc = "stat", !.err = applyUnifiedPatch(w.orig, w.patch).err,
                         !.data = applyUnifiedPatch(w.orig, w.patch).text]
          ELSE [w EXCEPT !.pc = "done", !.err = applyUnifiedPatch(w.orig, w.patch).err,
                         !.status = IF applyUnifiedPatch(w.orig, w.patch).err = PanicSliceBounds
                                    THEN 500 ELSE 400]
  /\ UNCHANGED <<fDir, fInodes, rd>>
  /\ UNCHANGED fsOthers

\* info, err := os.Stat(hostPath); writeFileAtomic(hostPath, updated, info.Mode().Perm(), nil)
PStat(ok) ==
  /\ w.pc = "stat"
  /\ w' = IF ok /\ fDir[Target] # 0
          THEN [w EXCEPT !.pc = "mkdir", !.mode = fInodes[fDir[Target]].mode, !.modTime = 0]
          ELSE [w EXCEPT !.pc = "done", !.status = 500]
  /\ UNCHANGED <<fDir, fInodes, rd>>
  /\ UNCHANGED fsOthers

PatchNext ==
  \/ PReadOrig
  \/ PApply
  \/ \E ok \in BOOLEAN : PStat(ok)
  \/ \E ok \in BOOLEAN : WMkdirAll(ok)
  \/ \E ok \in BOOLEAN : WCreateTemp(ok)
  \/ \E ok \in BOOLEAN : WCopy(ok)
  \/ \E ok \in BOOLEAN : WSync(ok)
  \/ \E ok \in BOOLEAN : WChmod(ok)
  \/ \E ok \in BOOLEAN : WClose(ok)
  \/ \E ok \in BOOLEAN : WRename(ok)
  \/ \E ok \in BOOLEAN : WChtimesTarget(ok)
  \/ WRemove

----------------------------------------------------------------------------
(* applyUnifiedPatch on patches of several hunks: the call ApplyPatch makes
   once it has read the original *)

\* hunk headers starting at line 1, at line 2 and beyond any original
ApplyHeaders ==
  {<<"@", "@", " ", "-", "1", " ", "+", "1", " ", "@", "@">>,
   <<"@", "@", " ", "-", "2", " ", "+", "2", " ", "@", "@">>,
   <<"@", "@", " ", "-", "9", " ", "+", "9", " ", "@", "@">>}

\* context, deletion, addition, an empty line, a no-newline marker, another character
ApplyBodyLines == {<<" ", "a">>, <<"-", "a">>, <<"+", "b">>, <<>>, <<"\\">>, <<"x", "a">>}

ApplyPatches ==
  {Join(ls, <<NL>>) : ls \in SeqsUpTo(ApplyHeaders \cup ApplyBodyLines, MaxApplyLines) \ {<<>>}}

ApplyOrigs == SeqsUpTo({"a", NL}, MaxTextLen)

\* the target holds orig; ApplyPatch has read it
ApplyStart ==
  /\ \E orig \in ApplyOrigs, patch \in ApplyPatches :
       /\ fInodes = <<[data |-> orig, mode |-> ModeDefault, mtime |-> 0]>>
       /\ w = [WIdle EXCEPT !.op = "patch", !.pc = "apply", !.patch = patch,
                            !.old = orig, !.orig = orig, !.oldMode = ModeDefault]
  /\ fDir = [n \in {Target, Tmp} |-> IF n = Target THEN 1 ELSE 0]
  /\ rd = [r \in Readers |-> RIdle]

ApplyNext == PApply

----------------------------------------------------------------------------
(* ApplyPatch next to another writer of the same path.  The other request is a
   WriteAtomic; what it does before its rename touches only its own temporary
   file, so it enters here with its rename. *)

RaceIdle == ow = [done |-> FALSE, data |-> <<>>]

\* what the other WriteAtomic writes
OtherContents == {<<"b">>, <<"a", NL, "a">>}

\* the target holds orig; ApplyPatch is past its path checks, the other write is pending
RaceStart ==
  /\ \E orig \in Texts, patch \in Patches :
       /\ fInodes = <<[data |-> orig, mode |-> ModeDefault, mtime |-> 0]>>
       /\ w = [WIdle EXCEPT !.op = "patch", !.pc = "readorig", !.patch = patch,
                            !.old = orig, !.oldMode = ModeDefault]
  /\ fDir = [n \in {Target, Tmp} |-> IF n = Target THEN 1 ELSE 0]
  /\ rd = [r \in Readers |-> RIdle]
  /\ \E c \in OtherContents : ow = [done |-> FALSE, data |-> c]

\* os.Rename(tmpName, targetPath) of the other WriteAtomic
OtherRename ==
  /\ ~ow.done
  /\ fInodes' = Append(fInodes, [data |-> ow.data, mode |-> ModeDefault, mtime |-> 0])
  /\ fDir' = [fDir EXCEPT ![Target] = Len(fInodes) + 1]
  /\ ow' = [ow EXCEPT !.done = TRUE]
  /\ UNCHANGED <<w, rd>>
  /\ UNCHANGED <<verVars, diffVars, pathVars, joinVars, reqVars, stopVars, mgrVars, chatVars>>

RaceNext == PatchNext \/ OtherRename

----------------------------------------------------------------------------
(* StreamChat: the producer goroutine, its two channels and their consumer *)

MaxBodyLines == 3    \* lines in the body of the gateway's event stream

\* cap of make(chan error, 1)
ErrChanCap == 1

EventPrefix == <<"e", "v", "e", "n", "t", ":">>
DataPrefix == <<"d", "a", "t", "a", ":">>
DoneMark == <<"[", "D", "O", "N", "E", "]">>

\* lines the gateway may send
ChatLines ==
  { <<>>,
    EventPrefix \o <<"d">>,
    DataPrefix \o <<"x">>,
    DataPrefix \o <<" ", "y", " ">>,
    DataPrefix \o <<" ">>,
    DataPrefix \o DoneMark,
    <<":", "k">> }

ChatBodies == SeqsUpTo(ChatLines, MaxBodyLines)

ChatQueries == {<<>>, <<" ">>, <<"q">>}
ChatUserIDs == {<<" ">>, <<"u">>}
ChatLoadTimes == {-1, 0}

\* the steps between validation and the gateway call, in program order
LoadSteps == <<"settings", "model", "clienttype", "history", "skills">>

ScIdleState ==
  [pc |-> "idle", query |-> <<>>, userID |-> <<>>, skipHistory |-> FALSE,
   err |-> "", status |-> 0, body |-> <<>>, pos |-> 0,
   currentEventType |-> <<>>, stored |-> FALSE, data |-> <<>>]

NewChan == [buf |-> <<>>, sent |-> <<>>, closes |-> 0, blocked |-> FALSE, afterClose |-> FALSE]

ChatIdle ==
  /\ sc = ScIdleState
  /\ chunkChan = NewChan
  /\ errChan = NewChan
  /\ co = [listening |-> FALSE, errs |-> <<>>]

\* StreamChat up to the go statement: both channels made, the goroutine started
ChatStart ==
  /\ \E q \in ChatQueries, u \in ChatUserIDs :
       sc = [ScIdleState EXCEPT !.pc = "start", !.query = q, !.userID = u]
  /\ chunkChan = NewChan
  /\ errChan = NewChan
  /\ co = [listening |-> TRUE, errs |-> <<>>]

\* the goroutine leaves with err: errChan <- err; return
Fails(err) == [sc EXCEPT !.pc = "senderr", !.err = err]

ScValidateNoReturn ==
  /\ sc.pc = "start"
  /\ \E t \in ChatLoadTimes :
       sc' = [sc EXCEPT !.pc = "settings", !.skipHistory = (t < 0)]
  /\ errChan' = IF TrimSpace(sc.query) = <<>>
                  THEN [errChan EXCEPT !.buf = Append(@, "query is required"),
                                       !.sent = Append(@, "query is required")]
                  ELSE errChan
  /\ UNCHANGED <<chunkChan, co>>
  /\ UNCHANGED chatOthers

ScValidate ==
  /\ sc.pc = "start"
  /\ \E t \in ChatLoadTimes :
       sc' = IF TrimSpace(sc.query) = <<>> THEN Fails("query is required")
             ELSE IF TrimSpace(sc.userID) = <<>> THEN Fails("user id is required")
             ELSE [sc EXCEPT !.pc = "settings", !.skipHistory = (t < 0)]
  /\ UNCHANGED <<chunkChan, errChan, co>>
  /\ UNCHANGED chatOthers

\* loadUserSettings, selectChatModel, normalizeClientType, loadHistoryMessages,
\* loadHistorySkills: each returns or fails as the database and the provider decide
ScLoad(i) ==
  /\ sc.pc = LoadSteps[i]
  /\ \E ok \in BOOLEAN :
       sc' = IF ~ok THEN Fails(LoadSteps[i])
             ELSE IF i = Len(LoadSteps) \/ (LoadSteps[i] = "clienttype" /\ sc.skipHistory)
               THEN [sc EXCEPT !.pc = "do"]
             ELSE [sc EXCEPT !.pc = LoadSteps[i + 1]]
  /\ UNCHANGED <<chunkChan, errChan, co>>
  /\ UNCHANGED chatOthers

\* streamChat up to streamingClient.Do
ScDo ==
  /\ sc.pc = "do"
  /\ \/ sc' = Fails("transport")
     \/ \E st \in {200, 502}, b \in ChatBodies :
          sc' = [sc EXCEPT !.pc = "status", !.status = st, !.body = b]
  /\ UNCHANGED <<chunkChan, errChan, co>>
  /\ UNCHANGED chatOthers

ScStatus ==
  /\ sc.pc = "status"
  /\ sc' = IF sc.status < 200 \/ sc.status >= 300 THEN Fails("agent gateway error")
           ELSE [sc EXCEPT !.pc = "scan"]
  /\ UNCHANGED <<chunkChan, errChan, co>>
  /\ UNCHANGED chatOthers

\* one turn of for scanner.Scan() up to the chunk send, or the end of the loop
ScScan ==
  /\ sc.pc = "scan"
  /\ IF sc.pos = Len(sc.body)
       THEN \E scanErr \in BOOLEAN :
              sc' = IF scanErr THEN Fails("scanner") ELSE [sc EXCEPT !.pc = "closeErr"]
       ELSE LET line == TrimSpace(sc.body[sc.pos + 1])
                next == [sc EXCEPT !.pos = @ + 1]
                data == TrimSpace(TrimPrefix(line, DataPrefix))
            IN sc' = IF line = <<>> THEN next
                     ELSE IF HasPrefix(line, EventPrefix)
                       THEN [next EXCEPT !.currentEventType = TrimSpace(TrimPrefix(line, EventPrefix))]
                     ELSE IF ~HasPrefix(line, DataPrefix) THEN next
                     ELSE IF data = <<>> \/ data = DoneMark THEN next
                     ELSE [next EXCEPT !.pc = "send", !.data = data]
  /\ UNCHANGED <<chunkChan, errChan, co>>
  /\ UNCHANGED chatOthers

\* chunkChan <- StreamChunk(data): completes when the consumer receives
ScSendChunk ==
  /\ sc.pc = "send"
  /\ co.listening
  /\ chunkChan' = [chunkChan EXCEPT !.sent = Append(@, sc.data),
                                    !.afterClose = @ \/ chunkChan.closes > 0]
  /\ sc' = [sc EXCEPT !.pc = IF sc.stored THEN "scan" ELSE "store", !.data = <<>>]
  /\ UNCHANGED <<errChan, co>>
  /\ UNCHANGED chatOthers

\* tryStoreFromStreamPayload
ScStore ==
  /\ sc.pc = "store"
  /\ \/ sc' = Fails("storage")
     \/ \E handled \in BOOLEAN : sc' = [sc EXCEPT !.pc = "scan", !.stored = handled]
  /\ UNCHANGED <<chunkChan, errChan, co>>
  /\ UNCHANGED chatOthers

\* errChan <- err: completes while the buffer has room, waits otherwise
ScSendErr ==
  /\ sc.pc = "senderr"
  /\ IF Len(errChan.buf) < ErrChanCap
       THEN /\ errChan' = [errChan EXCEPT !.buf = Append(@, sc.err),
                                          !.sent = Append(@, sc.err),
                                          !.afterClose = @ \/ errChan.closes > 0]
            /\ sc' = [sc EXCEPT !.pc = "closeErr"]
       ELSE /\ ~errChan.blocked
            /\ errChan' = [errChan EXCEPT !.blocked = TRUE]
            /\ UNCHANGED sc
  /\ UNCHANGED <<chunkChan, co>>
  /\ UNCHANGED chatOthers

\* defer close(errChan), the first of the two deferred calls to run
ScCloseErr ==
  /\ sc.pc = "closeErr"
  /\ errChan' = [errChan EXCEPT !.closes = @ + 1]
  /\ sc' = [sc EXCEPT !.pc = "closeChunk"]
  /\ UNCHANGED <<chunkChan, co>>
  /\ UNCHANGED chatOthers

\* defer close(chunkChan)
ScCloseChunk ==
  /\ sc.pc = "closeChunk"
  /\ chunkChan' = [chunkChan EXCEPT !.closes = @ + 1]
  /\ sc' = [sc EXCEPT !.pc = "done"]
  /\ UNCHANGED <<errChan, co>>
  /\ UNCHANGED chatOthers

\* the consumer takes the buffered error
CoRecvErr ==
  /\ co.listening
  /\ Len(errChan.buf) > 0
  /\ errChan' = [errChan EXCEPT !.buf = Tail(@)]
  /\ co' = [co EXCEPT !.errs = Append(@, Head(errChan.buf))]
  /\ UNCHANGED <<sc, chunkChan>>
  /\ UNCHANGED chatOthers

\* the consumer stops receiving
CoLeave ==
  /\ co.listening
  /\ co' = [co EXCEPT !.listening = FALSE]
  /\ UNCHANGED <<sc, chunkChan, errChan>>
  /\ UNCHANGED chatOthers

ChatNext ==
  \/ ScValidate
  \/ \E i \in 1..Len(LoadSteps) : ScLoad(i)
  \/ ScDo
  \/ ScStatus
  \/ ScScan
  \/ ScSendChunk
  \/ ScStore
  \/ ScSendErr
  \/ ScCloseErr
  \/ ScCloseChunk
  \/ CoRecvErr
  \/ CoLeave

----------------------------------------------------------------------------
(* User ids: a string is a sequence of code points *)

MaxUserIDLen == 2    \* code points in a user id

\* - _ a Z 0, and / @ ` { next to the letter ranges
CodePoints == {45, 95, 97, 90, 48, 47, 64, 96, 123}

UserIDs == SeqsUpTo(CodePoints, MaxUserIDLen)

\* the test of one rune in ValidateUserID
ValidRune(r) ==
  r = 45 \/ r = 95 \/ (r >= 97 /\ r <= 122) \/ (r >= 65 /\ r <= 90) \/ (r >= 48 /\ r <= 57)

\* a validator that only refuses the empty string
ValidateUserIDNonEmpty(userID) == userID # <<>>

\* identity.ValidateUserID: TRUE when it returns nil
ValidateUserID(userID) ==
  userID # <<>> /\ \A i \in 1..Len(userID) : ValidRune(userID[i])

\* auth.UserIDFromContext: the user_id claim, else the sub claim, else 401
UserIDFromContext(claims) == IF claims.user_id # <<>> THEN claims.user_id ELSE claims.sub

----------------------------------------------------------------------------
(* The request boundary: one FS request, or one manager operation of the CLI *)

HttpOps == {"read", "list", "write", "patch", "commit", "diff"}

OtherLabel == <<111>>

\* request paths: none, inside the data mount, outside it
ReqPaths == {<<>>, <<"/", "d", "/", "e">>, <<"/", "e">>}

\* the version query parameter
ReqVersions == {<<>>, <<"x">>, <<"0">>, <<"1">>, <<"2">>}

ReqPatches == {<<>>, <<"@", "@">>}

\* a label that is absent is not the caller's
LabelMatchesIfPresent(c, userID) == ~c.hasLabel \/ c.label = userID

\* label, ok := Labels[mcp.UserLabelKey]; !ok || label != userID is a mismatch
LabelMatches(c, userID) == c.hasLabel /\ c.label = userID

\* mount.Unmount() / versionCleanup()
Unmount(mounts, h) == [mounts EXCEPT ![h] = [live |-> FALSE, releases |-> @.releases + 1]]

\* mountUser on a label mismatch leaves the mount as it is
KeepMounted(mounts, h) == mounts

\* _ = mount.Unmount() in mountUser
UnmountOnMismatch(mounts, h) == Unmount(mounts, h)

\* the deferred calls of the handler, last first
RECURSIVE RunDefers(_, _)
RunDefers(mounts, defers) ==
  IF defers = <<>> THEN mounts
  ELSE RunDefers(Unmount(mounts, defers[Len(defers)]), SubSeq(defers, 1, Len(defers) - 1))

QIdle ==
  [op |-> "none", claims |-> [user_id |-> <<>>, sub |-> <<>>], userID |-> <<>>, path |-> <<>>,
   patch |-> <<>>, version |-> <<>>, pc |-> "idle", status |-> 0, defers |-> <<>>,
   envFailed |-> FALSE]

ReqIdle ==
  /\ req = QIdle /\ qContainer = [exists |-> FALSE, hasLabel |-> FALSE, label |-> <<>>]
  /\ qMounts = <<>> /\ qFiles = 0 /\ qRows = <<>> /\ qCalls = {}

\* the arguments each operation takes
ReqArgs(op) ==
  [path : IF op \in {"commit", "cli"} THEN {<<>>} ELSE ReqPaths,
   patch : IF op = "patch" THEN ReqPatches ELSE {<<>>},
   version : IF op = "diff" THEN ReqVersions ELSE {<<>>}]

ReqStart ==
  /\ \E op \in HttpOps \cup {"cli"}, user_id \in UserIDs, sub \in {<<>>, <<97>>} :
       /\ \E a \in ReqArgs(op) :
            req = [QIdle EXCEPT !.op = op, !.claims = [user_id |-> user_id, sub |-> sub],
                              !.path = a.path, !.patch = a.patch, !.version = a.version,
                              !.pc = "start"]
       /\ \E exists \in BOOLEAN, hasLabel \in BOOLEAN,
             label \in {UserIDFromContext([user_id |-> user_id, sub |-> sub]), OtherLabel} :
            /\ (~exists => ~hasLabel) /\ (~hasLabel => label = OtherLabel)
            /\ qContainer = [exists |-> exists, hasLabel |-> hasLabel, label |-> label]
  /\ qMounts = <<>> /\ qFiles = 0 /\ qRows = <<1>> /\ qCalls = {}

\* return with this status: the deferred calls run
Return(status) == [req EXCEPT !.pc = "done", !.status = status, !.defers = <<>>]

\* userID, err := h.requireUserID(c)
ReqRequireUserID ==
  /\ req.pc = "start" /\ req.op \in HttpOps
  /\ req' = IF UserIDFromContext(req.claims) = <<>> THEN Return(401)
          ELSE IF ~ValidateUserID(UserIDFromContext(req.claims)) THEN Return(400)
          ELSE [req EXCEPT !.pc = "args", !.userID = UserIDFromContext(req.claims)]
  /\ UNCHANGED <<qContainer, qMounts, qFiles, qRows, qCalls>>
  /\ UNCHANGED reqOthers

\* the CLI hands its argument to the manager, which validates it first
CliManagerOp ==
  /\ req.pc = "start" /\ req.op = "cli"
  /\ IF ~ValidateUserID(req.claims.user_id)
     THEN req' = Return(400) /\ UNCHANGED qCalls
     ELSE /\ req' = [Return(200) EXCEPT !.userID = req.claims.user_id]
          /\ qCalls' = qCalls \cup {"manager"}
  /\ UNCHANGED <<qContainer, qMounts, qFiles, qRows>>
  /\ UNCHANGED reqOthers

\* the checks a handler makes on its own arguments before it turns to the container
ArgsValid(r) ==
  CASE r.op = "write" -> r.path # <<>>
    [] r.op = "patch" -> r.path # <<>> /\ r.patch # <<>>
    [] r.op = "diff" -> /\ r.version # <<>>
                        /\ Atoi(r.version).ok /\ Atoi(r.version).n > 0
                        /\ resolveContainerPath(DefaultDataMount, r.path).err = ""
    [] OTHER -> TRUE

ReqCheckArgs ==
  /\ req.pc = "args"
  /\ req' = IF ~ArgsValid(req) THEN Return(400)
          ELSE IF req.op = "commit" THEN [req EXCEPT !.pc = "ensure"]
          ELSE [req EXCEPT !.pc = "mount"]
  /\ UNCHANGED <<qContainer, qMounts, qFiles, qRows, qCalls>>
  /\ UNCHANGED reqOthers

\* mount, err := h.mountUser(ctx, userID); defer mount.Unmount()
ReqMountUser(ok) ==
  /\ req.pc = "mount"
  /\ qCalls' = qCalls \cup {"MountContainerSnapshot"}
  /\ IF ~qContainer.exists THEN req' = Return(404) /\ UNCHANGED qMounts
     ELSE IF ~ok THEN req' = [Return(500) EXCEPT !.envFailed = TRUE] /\ UNCHANGED qMounts
     ELSE IF ~LabelMatches(qContainer, req.userID)
          THEN /\ req' = Return(403)
               /\ qMounts' = UnmountOnMismatch(Append(qMounts, [live |-> TRUE, releases |-> 0]),
                                               Len(qMounts) + 1)
     ELSE /\ req' = [req EXCEPT !.pc = "mounted", !.defers = Append(@, Len(qMounts) + 1)]
          /\ qMounts' = Append(qMounts, [live |-> TRUE, releases |-> 0])
  /\ UNCHANGED <<qContainer, qFiles, qRows>>
  /\ UNCHANGED reqOthers

\* h.ensureUserContainer(ctx, userID)
ReqEnsureUserContainer(ok) ==
  /\ req.pc = "ensure"
  /\ qCalls' = qCalls \cup {"GetContainer"}
  /\ req' = IF ~qContainer.exists THEN Return(404)
          ELSE IF ~ok THEN [Return(500) EXCEPT !.envFailed = TRUE]
          ELSE IF ~LabelMatches(qContainer, req.userID) THEN Return(403)
          ELSE [req EXCEPT !.pc = "commit"]
  /\ UNCHANGED <<qContainer, qMounts, qFiles, qRows>>
  /\ UNCHANGED reqOthers

\* resolveContainerPath and resolveHostPath in Read, List, WriteAtomic, ApplyPatch
ReqResolvePaths(hostOk) ==
  /\ req.pc = "mounted" /\ req.op \in {"read", "list", "write", "patch"}
  /\ IF resolveContainerPath(DefaultDataMount, req.path).err # "" \/ ~hostOk
     THEN req' = Return(400) /\ qMounts' = RunDefers(qMounts, req.defers)
     ELSE req' = [req EXCEPT !.pc = "body"] /\ UNCHANGED qMounts
  /\ UNCHANGED <<qContainer, qFiles, qRows, qCalls>>
  /\ UNCHANGED reqOthers

BodyStatus(op, outcome) ==
  CASE outcome = "notfound" -> 404
    [] outcome = "invalid" -> 400
    [] outcome = "error" -> 500
    [] OTHER -> IF op \in {"write", "patch"} THEN 204 ELSE 200

\* the file work of Read, List, WriteAtomic, ApplyPatch inside the mount
ReqBody(outcome) ==
  /\ req.pc = "body"
  /\ req' = Return(BodyStatus(req.op, outcome))
  /\ qFiles' = IF outcome = "ok" /\ req.op \in {"write", "patch"} THEN qFiles + 1 ELSE qFiles
  /\ qMounts' = RunDefers(qMounts, req.defers)
  /\ UNCHANGED <<qContainer, qRows, qCalls>>
  /\ UNCHANGED reqOthers

\* Diff: h.manager.VersionSnapshotID(ctx, userID, version)
ReqVersionSnapshotID(ok) ==
  /\ req.pc = "mounted" /\ req.op = "diff"
  /\ qCalls' = qCalls \cup {"VersionSnapshotID"}
  /\ IF \A i \in 1..Len(qRows) : qRows[i] # Atoi(req.version).n
     THEN req' = Return(404) /\ qMounts' = RunDefers(qMounts, req.defers)
     ELSE IF ~ok
          THEN req' = [Return(500) EXCEPT !.envFailed = TRUE] /\ qMounts' = RunDefers(qMounts, req.defers)
     ELSE req' = [req EXCEPT !.pc = "vmount"] /\ UNCHANGED qMounts
  /\ UNCHANGED <<qContainer, qFiles, qRows>>
  /\ UNCHANGED reqOthers

\* Diff: ctr.MountSnapshot(...); defer versionCleanup()
ReqMountSnapshot(res) ==
  /\ req.pc = "vmount"
  /\ qCalls' = qCalls \cup {"MountSnapshot"}
  /\ IF res = "ok"
     THEN /\ req' = [req EXCEPT !.pc = "diffbody", !.defers = Append(@, Len(qMounts) + 1)]
          /\ qMounts' = Append(qMounts, [live |-> TRUE, releases |-> 0])
     ELSE /\ req' = [Return(IF res = "notfound" THEN 404 ELSE 500) EXCEPT !.envFailed = TRUE]
          /\ qMounts' = RunDefers(qMounts, req.defers)
  /\ UNCHANGED <<qContainer, qFiles, qRows>>
  /\ UNCHANGED reqOthers

\* Diff: the two resolveHostPath calls, the two reads and unifiedDiff
ReqDiffBody(outcome) ==
  /\ req.pc = "diffbody"
  /\ req' = Return(BodyStatus(req.op, outcome))
  /\ qMounts' = RunDefers(qMounts, req.defers)
  /\ UNCHANGED <<qContainer, qFiles, qRows, qCalls>>
  /\ UNCHANGED reqOthers

\* Commit: h.manager.CreateVersion(ctx, userID)
ReqCreateVersion(res) ==
  /\ req.pc = "commit"
  /\ qCalls' = qCalls \cup {"CreateVersion"}
  /\ IF res = "ok"
     THEN req' = Return(200) /\ qRows' = Append(qRows, Max({qRows[i] : i \in 1..Len(qRows)}) + 1)
     ELSE req' = Return(IF res = "notfound" THEN 404 ELSE 500) /\ UNCHANGED qRows
  /\ UNCHANGED <<qContainer, qMounts, qFiles>>
  /\ UNCHANGED reqOthers

ReqNext ==
  \/ ReqRequireUserID
  \/ CliManagerOp
  \/ ReqCheckArgs
  \/ \E ok \in BOOLEAN : ReqMountUser(ok)
  \/ \E ok \in BOOLEAN : ReqEnsureUserContainer(ok)
  \/ \E hostOk \in BOOLEAN : ReqResolvePaths(hostOk)
  \/ \E outcome \in {"ok", "notfound", "invalid", "error"} : ReqBody(outcome)
  \/ \E ok \in BOOLEAN : ReqVersionSnapshotID(ok)
  \/ \E res \in {"ok", "notfound", "error"} : ReqMountSnapshot(res)
  \/ \E outcome \in {"ok", "invalid", "error"} : ReqDiffBody(outcome)
  \/ \E res \in {"ok", "notfound", "error"} : ReqCreateVersion(res)

----------------------------------------------------------------------------
(* StopTask (internal/containerd/service.go), statement by statement, with
   the task and the clock as its environment.  Time is counted in ticks of
   one second from the creation of the timer. *)

SIGINT == 2

SIGKILL == 9

SIGTERM == 15

DefaultStopTimeout == 10

\* opts == nil is has = FALSE
StopTaskOptions ==
  {[has |-> FALSE, Signal |-> 0, Timeout |-> 0, Force |-> FALSE]}
  \cup [has : {TRUE}, Signal : {0, SIGINT}, Timeout : 0..MaxStopTimeout,
        Force : BOOLEAN]

StopSignal(opts) == IF opts.has /\ opts.Signal # 0 THEN opts.Signal ELSE SIGTERM

StopTimeout(opts) ==
  IF opts.has /\ opts.Timeout # 0 THEN opts.Timeout ELSE DefaultStopTimeout

StopForceAlways(opts) == TRUE

StopForce(opts) == opts.has /\ opts.Force

StopIdle ==
  /\ stk = [pc |-> "idle"]
  /\ task = [status |-> "none", inTime |-> FALSE]
  /\ kills = <<>>
  /\ statusC = FALSE
  /\ timerC = FALSE
  /\ clock = 0

StopStart ==
  /\ \E id \in {"", "c"}, o \in StopTaskOptions :
       stk = [pc |-> "start", containerID |-> id, opts |-> o, err |-> "",
              waited |-> FALSE, sawStatus |-> FALSE, sawTimer |-> FALSE,
              branch |-> "none"]
  /\ task = [status |-> "running", inTime |-> FALSE]
  /\ kills = <<>>
  /\ statusC = FALSE
  /\ timerC = FALSE
  /\ clock = 0

StopReturn(e) == [stk EXCEPT !.pc = "done", !.err = e]

\* if containerID == "" { return ErrInvalidArgument };  task, err := s.GetTask
StopGetTask(ok) ==
  /\ stk.pc = "start"
  /\ stk' = IF stk.containerID = "" THEN StopReturn("ErrInvalidArgument")
            ELSE IF ok THEN [stk EXCEPT !.pc = "kill"]
            ELSE StopReturn("error")
  /\ UNCHANGED <<task, kills, statusC, timerC, clock>>
  /\ UNCHANGED stopOthers

\* task.Kill(ctx, signal): fails on a task that has exited already
StopKill(ok) ==
  /\ stk.pc = "kill"
  /\ ok => task.status = "running"
  /\ kills' = Append(kills, StopSignal(stk.opts))
  /\ stk' = IF ok THEN [stk EXCEPT !.pc = "wait"] ELSE StopReturn("error")
  /\ UNCHANGED <<task, statusC, timerC, clock>>
  /\ UNCHANGED stopOthers

\* statusC, err := task.Wait(ctx)
StopWait(ok) ==
  /\ stk.pc = "wait"
  /\ stk' = IF ok THEN [stk EXCEPT !.pc = "timer", !.waited = TRUE]
            ELSE StopReturn("error")
  /\ UNCHANGED <<task, kills, statusC, timerC, clock>>
  /\ UNCHANGED stopOthers

\* timer := time.NewTimer(timeout)
StopNewTimer ==
  /\ stk.pc = "timer"
  /\ stk' = [stk EXCEPT !.pc = "select"]
  /\ clock' = 0
  /\ timerC' = FALSE
  /\ UNCHANGED <<task, kills, statusC>>
  /\ UNCHANGED stopOthers

\* select { case <-statusC: ...  case <-timer.C: ... }: one of the cases that
\* can proceed is taken
StopSelect(branch) ==
  /\ stk.pc = "select"
  /\ \/ branch = "status" /\ statusC
     \/ branch = "timer" /\ timerC
  /\ LET s == [stk EXCEPT !.sawStatus = statusC, !.sawTimer = timerC,
                          !.branch = branch]
     IN stk' = IF branch = "status" THEN [s EXCEPT !.pc = "done", !.err = "nil"]
               ELSE IF StopForce(stk.opts) THEN [s EXCEPT !.pc = "forcekill"]
               ELSE [s EXCEPT !.pc = "done", !.err = "ErrTaskStopTimeout"]
  /\ UNCHANGED <<task, kills, statusC, timerC, clock>>
  /\ UNCHANGED stopOthers

\* if err := task.Kill(ctx, syscall.SIGKILL); err != nil { return "force kill failed" }
StopForceKill(ok) ==
  /\ stk.pc = "forcekill"
  /\ ok => task.status = "running"
  /\ kills' = Append(kills, SIGKILL)
  /\ stk' = IF ok THEN [stk EXCEPT !.pc = "drain"]
            ELSE StopReturn("force kill failed")
  /\ UNCHANGED <<task, statusC, timerC, clock>>
  /\ UNCHANGED stopOthers

\* <-statusC; return nil
StopDrain ==
  /\ stk.pc = "drain"
  /\ statusC
  /\ stk' = StopReturn("nil")
  /\ UNCHANGED <<task, kills, statusC, timerC, clock>>
  /\ UNCHANGED stopOthers

\* the task exits, of its own accord or on a signal
TaskExit ==
  /\ stk.pc # "done"
  /\ task.status = "running"
  /\ task' = [status |-> "stopped", inTime |-> ~timerC]
  /\ UNCHANGED <<stk, kills, statusC, timerC, clock>>
  /\ UNCHANGED stopOthers

\* the exit status of the task reaches the channel task.Wait returned
TaskExitDelivered ==
  /\ stk.pc # "done"
  /\ stk.waited
  /\ task.status = "stopped"
  /\ ~statusC
  /\ statusC' = TRUE
  /\ UNCHANGED <<stk, task, kills, timerC, clock>>
  /\ UNCHANGED stopOthers

\* a second passes; the timer fires when the timeout has passed
TimerTick ==
  /\ stk.pc \in {"select"}
  /\ ~timerC
  /\ clock' = clock + 1
  /\ timerC' = (clock' >= StopTimeout(stk.opts))
  /\ UNCHANGED <<stk, task, kills, statusC>>
  /\ UNCHANGED stopOthers

StopNext ==
  \/ \E ok \in BOOLEAN : StopGetTask(ok)
  \/ \E ok \in BOOLEAN : StopKill(ok)
  \/ \E ok \in BOOLEAN : StopWait(ok)
  \/ StopNewTimer
  \/ \E branch \in {"status", "timer"} : StopSelect(branch)
  \/ \E ok \in BOOLEAN : StopForceKill(ok)
  \/ StopDrain
  \/ TaskExit
  \/ TaskExitDelivered
  \/ TimerTick

----------------------------------------------------------------------------
(* The runtime as the adapter (internal/containerd/service.go) drives it.
   Containers are records [id, snapshotKey, label]; snapshots are kept by
   storage number, [key, kind, parent, data], where data is the content of
   the one file p under the data mount ("absent" when there is none) and a
   removed snapshot keeps its number with kind "removed".  Every operator
   returns the error of the call and the state it leaves. *)

UserLabelKey == "user"

ImageRef == "image"

NoKey == <<>>

SnapshotAt(snaps, key) ==
  {i \in 1..Len(snaps) : snaps[i].key = key /\ snaps[i].kind # "removed"}

HasSnapshot(snaps, key) == SnapshotAt(snaps, key) # {}

TheSnapshot(snaps, key) == CHOOSE i \in SnapshotAt(snaps, key) : TRUE

HasChild(snaps, i) ==
  \E j \in 1..Len(snaps) : snaps[j].kind # "removed" /\ snaps[j].parent = i

\* snapshotter.Remove(key): refused while another snapshot is parented on it
RemoveSnapshot(snaps, key) ==
  IF ~HasSnapshot(snaps, key) THEN [err |-> "NotFound", snaps |-> snaps]
  ELSE IF HasChild(snaps, TheSnapshot(snaps, key))
    THEN [err |-> "FailedPrecondition", snaps |-> snaps]
  ELSE [err |-> "nil",
        snaps |-> [snaps EXCEPT ![TheSnapshot(snaps, key)].kind = "removed"]]

\* Commit(ctx, name, key): the active snapshot key becomes the committed
\* snapshot name; the storage behind it stays the same
CommitSnapshot(snaps, name, key) ==
  IF name = NoKey \/ key = NoKey THEN [err |-> "ErrInvalidArgument", snaps |-> snaps]
  ELSE IF ~HasSnapshot(snaps, key) THEN [err |-> "NotFound", snaps |-> snaps]
  ELSE IF snaps[TheSnapshot(snaps, key)].kind # "active"
    THEN [err |-> "FailedPrecondition", snaps |-> snaps]
  ELSE IF HasSnapshot(snaps, name) THEN [err |-> "AlreadyExists", snaps |-> snaps]
  ELSE [err |-> "nil",
        snaps |-> [snaps EXCEPT ![TheSnapshot(snaps, key)] =
                     [@ EXCEPT !.key = name, !.kind = "committed"]]]

\* Prepare(ctx, key, parent): a new active snapshot on top of a committed one
PrepareSnapshot(snaps, key, parent) ==
  IF key = NoKey \/ parent = NoKey THEN [err |-> "ErrInvalidArgument", snaps |-> snaps]
  ELSE IF HasSnapshot(snaps, key) THEN [err |-> "AlreadyExists", snaps |-> snaps]
  ELSE IF ~HasSnapshot(snaps, parent) THEN [err |-> "NotFound", snaps |-> snaps]
  ELSE IF snaps[TheSnapshot(snaps, parent)].kind # "committed"
    THEN [err |-> "ErrInvalidArgument", snaps |-> snaps]
  ELSE [err |-> "nil",
        snaps |-> Append(snaps, [key |-> key, kind |-> "active",
                                 parent |-> TheSnapshot(snaps, parent),
                                 data |-> snaps[TheSnapshot(snaps, parent)].data])]

\* containerd.WithNewSnapshot(snapshotID, image): an active snapshot on the image
NewImageSnapshot(snaps, key) ==
  Append(snaps, [key |-> key, kind |-> "active", parent |-> 0, data |-> "absent"])

HasContainer(cs, id) == \E c \in cs : c.id = id

TheContainer(cs, id) == CHOOSE c \in cs : c.id = id

\* a create that takes the snapshot key of the request as it is
CreateContainerNoDefault(cs, snaps, r) ==
  IF r.ID = NoKey \/ r.ImageRef = ""
    THEN [err |-> "ErrInvalidArgument", snaps |-> snaps, cs |-> cs]
  ELSE IF HasSnapshot(snaps, r.SnapshotID)
    THEN [err |-> "AlreadyExists", snaps |-> snaps, cs |-> cs]
  ELSE IF HasContainer(cs, r.ID)
    THEN [err |-> "AlreadyExists", snaps |-> NewImageSnapshot(snaps, r.SnapshotID),
          cs |-> cs]
  ELSE [err |-> "nil", snaps |-> NewImageSnapshot(snaps, r.SnapshotID),
        cs |-> cs \cup {[id |-> r.ID, snapshotKey |-> r.SnapshotID, label |-> r.Labels]}]

\* CreateContainer: the snapshot option runs before the container is recorded
CreateContainer(cs, snaps, r) ==
  LET snapshotID == IF r.SnapshotID = NoKey THEN r.ID ELSE r.SnapshotID IN
  IF r.ID = NoKey \/ r.ImageRef = ""
    THEN [err |-> "ErrInvalidArgument", snaps |-> snaps, cs |-> cs]
  ELSE IF HasSnapshot(snaps, snapshotID)
    THEN [err |-> "AlreadyExists", snaps |-> snaps, cs |-> cs]
  ELSE IF HasContainer(cs, r.ID)
    THEN [err |-> "AlreadyExists", snaps |-> NewImageSnapshot(snaps, snapshotID),
          cs |-> cs]
  ELSE [err |-> "nil", snaps |-> NewImageSnapshot(snaps, snapshotID),
        cs |-> cs \cup {[id |-> r.ID, snapshotKey |-> snapshotID, label |-> r.Labels]}]

\* CreateContainerFromSnapshot: containerd.WithSnapshot(req.SnapshotID)
CreateContainerFromSnapshot(cs, snaps, r) ==
  IF r.ID = NoKey \/ r.SnapshotID = NoKey \/ r.ImageRef = ""
    THEN [err |-> "ErrInvalidArgument", cs |-> cs]
  ELSE IF ~HasSnapshot(snaps, r.SnapshotID) THEN [err |-> "NotFound", cs |-> cs]
  ELSE IF HasContainer(cs, r.ID) THEN [err |-> "AlreadyExists", cs |-> cs]
  ELSE [err |-> "nil",
        cs |-> cs \cup {[id |-> r.ID, snapshotKey |-> r.SnapshotID, label |-> r.Labels]}]

\* DeleteContainer: LoadContainer, then Delete with or without WithSnapshotCleanup;
\* the runtime refuses while the container has a task
DeleteContainer(cs, snaps, tasks, id, cleanupSnapshot) ==
  IF id = NoKey THEN [err |-> "ErrInvalidArgument", cs |-> cs, snaps |-> snaps]
  ELSE IF ~HasContainer(cs, id) THEN [err |-> "NotFound", cs |-> cs, snaps |-> snaps]
  ELSE IF tasks[id] # "none"
    THEN [err |-> "FailedPrecondition", cs |-> cs, snaps |-> snaps]
  ELSE LET c == TheContainer(cs, id)
           rm == RemoveSnapshot(snaps, c.snapshotKey)
       IN IF ~cleanupSnapshot THEN [err |-> "nil", cs |-> cs \ {c}, snaps |-> snaps]
          ELSE IF rm.err # "nil" THEN [err |-> rm.err, cs |-> cs, snaps |-> snaps]
          ELSE [err |-> "nil", cs |-> cs \ {c}, snaps |-> rm.snaps]

\* ListContainersByLabel: the label is present and, when a value is given, equal to it
ListContainersByLabel(cs, key, value) ==
  IF key = "" THEN [err |-> "ErrInvalidArgument", list |-> {}]
  ELSE [err |-> "nil",
        list |-> {c \in cs : key = UserLabelKey /\ c.label # ""
                              /\ (value = "" \/ value = c.label)}]

\* StartTask: LoadContainer, NewTask, Start
StartTask(cs, tasks, id) ==
  IF id = NoKey THEN [err |-> "ErrInvalidArgument", tasks |-> tasks]
  ELSE IF ~HasContainer(cs, id) THEN [err |-> "NotFound", tasks |-> tasks]
  ELSE IF tasks[id] # "none" THEN [err |-> "AlreadyExists", tasks |-> tasks]
  ELSE [err |-> "nil", tasks |-> [tasks EXCEPT ![id] = "running"]]

\* StopTask with Force: the task has exited when it returns nil
StopTaskForced(cs, tasks, id) ==
  IF id = NoKey THEN [err |-> "ErrInvalidArgument", tasks |-> tasks]
  ELSE IF ~HasContainer(cs, id) \/ tasks[id] = "none"
    THEN [err |-> "NotFound", tasks |-> tasks]
  ELSE IF tasks[id] = "stopped" THEN [err |-> "NotFound", tasks |-> tasks]
  ELSE [err |-> "nil", tasks |-> [tasks EXCEPT ![id] = "stopped"]]

\* a delete that reports success and leaves the task
DeleteTaskKeeps(cs, tasks, id) ==
  IF id = NoKey THEN [err |-> "ErrInvalidArgument", tasks |-> tasks]
  ELSE IF ~HasContainer(cs, id) \/ tasks[id] = "none"
    THEN [err |-> "NotFound", tasks |-> tasks]
  ELSE [err |-> "nil", tasks |-> tasks]

\* DeleteTask: GetTask, then task.Delete, refused while the task runs
DeleteTask(cs, tasks, id) ==
  IF id = NoKey THEN [err |-> "ErrInvalidArgument", tasks |-> tasks]
  ELSE IF ~HasContainer(cs, id) \/ tasks[id] = "none"
    THEN [err |-> "NotFound", tasks |-> tasks]
  ELSE IF tasks[id] = "running" THEN [err |-> "FailedPrecondition", tasks |-> tasks]
  ELSE [err |-> "nil", tasks |-> [tasks EXCEPT ![id] = "none"]]

----------------------------------------------------------------------------
(* The catalogue tables of the manager (db/migrations/0001_init.up.sql) *)

HasRow(rows, cid) == \E r \in rows : r.container_id = cid

\* INSERT INTO containers: containers_container_id_unique
InsertContainer(rows, cid) ==
  IF HasRow(rows, cid) THEN [err |-> "unique_violation", rows |-> rows]
  ELSE [err |-> "nil", rows |-> rows \cup {[container_id |-> cid, status |-> "created"]}]

\* UPDATE containers SET status = ? WHERE container_id = ?
UpdateContainerStatus(rows, cid, status) ==
  {IF r.container_id = cid THEN [r EXCEPT !.status = status] ELSE r : r \in rows}

\* REFERENCES containers(container_id) ON DELETE CASCADE, on every dependent table
CascadeSet(rows, cid) == {r \in rows : r.container_id # cid}

CascadeSeq(rows, cid) == SelectSeq(rows, LAMBDA r : r.container_id # cid)

\* SELECT COALESCE(MAX(version), 0) + 1 over the rows of the container
VersionNumbers(rows, cid) == {r.version : r \in {x \in rows : x.container_id = cid}}

\* numbering that restarts after the version last rolled back to
MaxPlusOneOfRollback(rows, cid) ==
  LET us == {u \in DOMAIN hist : ContainerID(u) = cid /\ hist[u].rollV # 0}
  IN IF us = {}
     THEN (IF VersionNumbers(rows, cid) = {} THEN 0 ELSE Max(VersionNumbers(rows, cid))) + 1
     ELSE hist[CHOOSE u \in us : TRUE].rollV + 1

MaxPlusOne(rows, cid) ==
  (IF VersionNumbers(rows, cid) = {} THEN 0 ELSE Max(VersionNumbers(rows, cid))) + 1

\* SELECT snapshot_id FROM container_versions WHERE container_id = ? AND version = ?
SnapshotIDOf(rows, cid, v) ==
  {r.snapshot_id : r \in {x \in rows : x.container_id = cid /\ x.version = v}}

----------------------------------------------------------------------------
(* The user-container manager: EnsureUser, Start, Stop, Delete, CreateVersion
   and Rollback, one step per runtime or catalogue call, each call able to
   fail; and an FS write, which takes no lock and holds its own mount. *)

Threads == {"t1", "t2"}

MgrOps == {"EnsureUser", "Start", "Stop", "Delete", "CreateVersion", "Rollback"}

\* the calls made: every operation for alice, and Start for bob, who has no
\* container
MgrCalls == (MgrOps \X {"alice"}) \cup {<<"Start", "bob">>}

\* what an FS write puts into the file: content no version holds yet
FileContents == {"z"}

MopIdle == [op |-> "none", user |-> "", pc |-> "idle", v |-> 0]

\* calls: "none" | "entered" (only Start and Stop were called) | "startstop"
\* (and one of them has returned success) | "mixed"
HistIdle == [ensured |-> FALSE, rollV |-> 0, rollData |-> "absent", calls |-> "none"]

FswIdle == [pc |-> "idle", user |-> "", sid |-> 0, ops |-> 0]

MgrIdle ==
  /\ rtContainers = {}
  /\ rtSnapshots = <<>>
  /\ rtTasks = [u \in {} |-> "none"]
  /\ dbContainers = {}
  /\ dbSnapshots = {}
  /\ dbVersions = {}
  /\ dbEvents = <<>>
  /\ locks = [u \in {} |-> ""]
  /\ mop = <<>>
  /\ fsw = FswIdle
  /\ made = {}
  /\ hist = [u \in {} |-> HistIdle]

\* alice's container after EnsureUser and then n times (WriteAtomic, CreateVersion),
\* the writes putting "x" before version 1 and "y" before version 2
SeedData(v) == IF v = 1 THEN "x" ELSE "y"

SeedSnapshots(n) ==
  [i \in 1..(n + 1) |->
     IF i <= n
     THEN [key |-> VersionSnapshotName(ContainerID("alice"), i), kind |-> "committed",
           parent |-> i - 1, data |-> SeedData(i)]
     ELSE [key |-> ContainerID("alice"), kind |-> "active", parent |-> n,
           data |-> IF n = 0 THEN "absent" ELSE SeedData(n)]]

SeedVersions(n) ==
  {[container_id |-> ContainerID("alice"), version |-> v,
    snapshot_id |-> VersionSnapshotName(ContainerID("alice"), v)] : v \in 1..n}

SeedEvents(n) ==
  <<[container_id |-> ContainerID("alice"), event_type |-> "created"]>>
  \o [i \in 1..n |-> [container_id |-> ContainerID("alice"),
                      event_type |-> "version_created"]]

MgrFresh ==
  /\ rtContainers = {}
  /\ rtSnapshots = <<>>
  /\ dbContainers = {}
  /\ dbSnapshots = {}
  /\ dbVersions = {}
  /\ dbEvents = <<>>
  /\ made = {}
  /\ hist = [u \in Users |-> HistIdle]

MgrSeeded(n) ==
  /\ rtContainers = {[id |-> ContainerID("alice"), snapshotKey |-> ContainerID("alice"),
                      label |-> "alice"]}
  /\ rtSnapshots = SeedSnapshots(n)
  /\ dbContainers = {[container_id |-> ContainerID("alice"), status |-> "created"]}
  /\ dbSnapshots = {[id |-> ContainerID("alice"), container_id |-> ContainerID("alice")]}
                   \cup {[id |-> r.snapshot_id, container_id |-> r.container_id] :
                           r \in SeedVersions(n)}
  /\ dbVersions = SeedVersions(n)
  /\ dbEvents = SeedEvents(n)
  /\ made = {[container_id |-> r.container_id, version |-> r.version,
              snapshot_id |-> r.snapshot_id, sid |-> r.version,
              data |-> SeedData(r.version)] : r \in SeedVersions(n)}
  /\ hist = [u \in Users |-> IF u = "alice" THEN [HistIdle EXCEPT !.ensured = TRUE]
                             ELSE HistIdle]

MgrStart ==
  /\ MgrFresh \/ \E n \in 0..MaxSeedVersions : MgrSeeded(n)
  /\ rtTasks = [u \in {ContainerID(x) : x \in Users} |-> "none"]
  /\ locks = [u \in Users |-> ""]
  /\ mop = [p \in Threads |-> MopIdle]
  /\ fsw = FswIdle

rtVars == <<rtContainers, rtSnapshots, rtTasks>>

dbVars == <<dbContainers, dbSnapshots, dbVersions, dbEvents>>

cidOf(p) == ContainerID(mop[p].user)

InCriticalSection(p) == mop[p].pc # "idle"

\* the content Read(p) returns for user u: the file in the container's snapshot
ReadData(u) ==
  IF /\ HasContainer(rtContainers, ContainerID(u))
     /\ HasSnapshot(rtSnapshots, TheContainer(rtContainers, ContainerID(u)).snapshotKey)
  THEN rtSnapshots[TheSnapshot(rtSnapshots,
                     TheContainer(rtContainers, ContainerID(u)).snapshotKey)].data
  ELSE "none"

\* the lock table
LockFreeAlways(l, u) == TRUE

LockFree(l, u) == l[u] = ""

Unlock(l, u) == [l EXCEPT ![u] = ""]

\* the thread moves on inside its operation
MgrGoto(p, pc) ==
  /\ mop' = [mop EXCEPT ![p].pc = pc]
  /\ UNCHANGED locks

\* the operation returns e and, on the way out, releases the lock of its user
MgrReturn(p, e) ==
  /\ mop' = [mop EXCEPT ![p] = MopIdle]
  /\ locks' = Unlock(locks, mop[p].user)

FirstStep(op) ==
  CASE op = "EnsureUser" -> "list"
    [] op = "Start" -> "load"
    [] op = "CreateVersion" -> "next"
    [] OTHER -> "stop"

AfterTask(op) ==
  CASE op = "Stop" -> "status"
    [] op = "Delete" -> "container"
    [] OTHER -> "resolve"

EventType(op) ==
  CASE op = "EnsureUser" -> "created"
    [] op = "Start" -> "started"
    [] op = "Stop" -> "stopped"
    [] op = "Delete" -> "deleted"
    [] op = "CreateVersion" -> "version_created"
    [] OTHER -> "rolled_back"

\* a caller enters an operation of the manager: it takes the lock of the user,
\* waiting while another thread holds it.  Threads are alike, so a call made
\* while no other is in flight is given to t1.
MgrEnter(p, op, u, v) ==
  /\ mop[p].pc = "idle"
  /\ p = "t2" => mop["t1"].pc # "idle"
  /\ fsw.ops < MaxMgrOps
  /\ (op = "Rollback") = (v # 0)
  /\ LockFree(locks, u)
  /\ locks' = [locks EXCEPT ![u] = p]
  /\ mop' = [mop EXCEPT ![p] = [op |-> op, user |-> u, pc |-> FirstStep(op), v |-> v]]
  /\ fsw' = [fsw EXCEPT !.ops = @ + 1]
  /\ hist' = [hist EXCEPT
                ![u].ensured = IF op = "Delete" THEN FALSE ELSE @,
                ![u].calls = IF op \notin {"Start", "Stop"} THEN "mixed"
                             ELSE IF @ = "none" THEN "entered" ELSE @]
  /\ UNCHANGED <<rtVars, dbVars, made>>
  /\ UNCHANGED mgrOthers

\* EnsureUser: is there a container labelled user=<user_id>?
EnsureList(p, ok) ==
  /\ mop[p].pc = "list"
  /\ LET r == ListContainersByLabel(rtContainers, UserLabelKey, mop[p].user)
     IN IF ~ok \/ r.err # "nil" THEN MgrReturn(p, "error")
        ELSE IF r.list # {} THEN MgrGoto(p, "reconcile")
        ELSE MgrGoto(p, "create")
  /\ UNCHANGED <<rtVars, dbVars, fsw, made, hist>>
  /\ UNCHANGED mgrOthers

\* EnsureUser: the container exists; reconcile the catalogue and return
EnsureReconcile(p, ok) ==
  /\ mop[p].pc = "reconcile"
  /\ IF ~ok THEN MgrReturn(p, "error") /\ UNCHANGED <<dbContainers, dbSnapshots, hist>>
     ELSE /\ MgrReturn(p, "nil")
          /\ dbContainers' = IF HasRow(dbContainers, cidOf(p)) THEN dbContainers
                             ELSE InsertContainer(dbContainers, cidOf(p)).rows
          /\ dbSnapshots' = dbSnapshots \cup {[id |-> cidOf(p), container_id |-> cidOf(p)]}
          /\ hist' = [hist EXCEPT ![mop[p].user].ensured = TRUE]
  /\ UNCHANGED <<rtVars, dbVersions, dbEvents, fsw, made>>
  /\ UNCHANGED mgrOthers

\* EnsureUser: create container memoh-user-<user_id> with a fresh writable
\* snapshot of the same name and the label user=<user_id>
EnsureCreate(p, ok) ==
  /\ mop[p].pc = "create"
  /\ LET r == CreateContainer(rtContainers, rtSnapshots,
                [ID |-> cidOf(p), ImageRef |-> ImageRef, SnapshotID |-> NoKey,
                 Labels |-> mop[p].user])
     IN IF ~ok THEN MgrReturn(p, "error") /\ UNCHANGED <<rtContainers, rtSnapshots>>
        ELSE /\ rtContainers' = r.cs
             /\ rtSnapshots' = r.snaps
             /\ IF r.err # "nil" THEN MgrReturn(p, r.err) ELSE MgrGoto(p, "insert")
  /\ UNCHANGED <<rtTasks, dbVars, fsw, made, hist>>
  /\ UNCHANGED mgrOthers

\* EnsureUser: insert the container row and the row of its initial snapshot
EnsureInsert(p, ok) ==
  /\ mop[p].pc = "insert"
  /\ LET r == InsertContainer(dbContainers, cidOf(p))
     IN IF ~ok \/ r.err # "nil"
          THEN MgrReturn(p, "error") /\ UNCHANGED <<dbContainers, dbSnapshots>>
        ELSE /\ dbContainers' = r.rows
             /\ dbSnapshots' = dbSnapshots \cup {[id |-> cidOf(p), container_id |-> cidOf(p)]}
             /\ MgrGoto(p, "event")
  /\ UNCHANGED <<rtVars, dbVersions, dbEvents, fsw, made, hist>>
  /\ UNCHANGED mgrOthers

\* Start: load the container; a running task makes the call a no-op
StartLoad(p, ok) ==
  /\ mop[p].pc = "load"
  /\ IF ~ok THEN MgrReturn(p, "error") /\ UNCHANGED hist
     ELSE IF ~HasContainer(rtContainers, cidOf(p))
       THEN MgrReturn(p, "NotFound") /\ UNCHANGED hist
     ELSE IF rtTasks[cidOf(p)] = "running"
       THEN /\ MgrReturn(p, "nil")
            /\ hist' = [hist EXCEPT ![mop[p].user].calls =
                          IF @ = "entered" THEN "startstop" ELSE @]
     ELSE MgrGoto(p, "start") /\ UNCHANGED hist
  /\ UNCHANGED <<rtVars, dbVars, fsw, made>>
  /\ UNCHANGED mgrOthers

\* Start: start the task
StartRun(p, ok) ==
  /\ mop[p].pc = "start"
  /\ LET r == StartTask(rtContainers, rtTasks, cidOf(p))
     IN IF ~ok THEN MgrReturn(p, "error") /\ UNCHANGED rtTasks
        ELSE /\ rtTasks' = r.tasks
             /\ IF r.err # "nil" THEN MgrReturn(p, r.err) ELSE MgrGoto(p, "status")
  /\ UNCHANGED <<rtContainers, rtSnapshots, dbVars, fsw, made, hist>>
  /\ UNCHANGED mgrOthers

\* Stop, Delete, Rollback: stop the task if there is one; a missing task
\* counts as stopped
MgrStopTask(p, ok) ==
  /\ mop[p].pc = "stop"
  /\ LET r == StopTaskForced(rtContainers, rtTasks, cidOf(p))
     IN IF ~ok THEN MgrReturn(p, "error") /\ UNCHANGED rtTasks
        ELSE /\ rtTasks' = r.tasks
             /\ IF r.err \in {"nil", "NotFound"} THEN MgrGoto(p, "deltask")
                ELSE MgrReturn(p, r.err)
  /\ UNCHANGED <<rtContainers, rtSnapshots, dbVars, fsw, made, hist>>
  /\ UNCHANGED mgrOthers

\* Stop, Delete, Rollback: delete the task
MgrDeleteTask(p, ok) ==
  /\ mop[p].pc = "deltask"
  /\ LET r == DeleteTask(rtContainers, rtTasks, cidOf(p))
     IN IF ~ok THEN MgrReturn(p, "error") /\ UNCHANGED rtTasks
        ELSE /\ rtTasks' = r.tasks
             /\ IF r.err \in {"nil", "NotFound"} THEN MgrGoto(p, AfterTask(mop[p].op))
                ELSE MgrReturn(p, r.err)
  /\ UNCHANGED <<rtContainers, rtSnapshots, dbVars, fsw, made, hist>>
  /\ UNCHANGED mgrOthers

\* Start, Stop: set the status of the container row
MgrStatus(p, ok) ==
  /\ mop[p].pc = "status"
  /\ IF ~ok THEN MgrReturn(p, "error") /\ UNCHANGED dbContainers
     ELSE /\ dbContainers' = UpdateContainerStatus(dbContainers, cidOf(p),
                               IF mop[p].op = "Start" THEN "running" ELSE "stopped")
          /\ MgrGoto(p, "event")
  /\ UNCHANGED <<rtVars, dbSnapshots, dbVersions, dbEvents, fsw, made, hist>>
  /\ UNCHANGED mgrOthers

\* every operation: append its lifecycle event, best-effort, and return
MgrEvent(p, ok) ==
  /\ mop[p].pc = "event"
  /\ dbEvents' = IF ok /\ HasRow(dbContainers, cidOf(p))
                 THEN Append(dbEvents, [container_id |-> cidOf(p),
                                        event_type |-> EventType(mop[p].op)])
                 ELSE dbEvents
  /\ MgrReturn(p, "nil")
  /\ hist' = CASE mop[p].op = "EnsureUser" ->
                    [hist EXCEPT ![mop[p].user].ensured = TRUE]
               [] mop[p].op \in {"Start", "Stop"} ->
                    [hist EXCEPT ![mop[p].user].calls =
                       IF @ = "entered" THEN "startstop" ELSE @]
               [] OTHER -> hist
  /\ made' = IF mop[p].op = "CreateVersion"
             THEN made \cup {[container_id |-> cidOf(p), version |-> mop[p].v,
                              snapshot_id |-> VersionSnapshotName(cidOf(p), mop[p].v),
                              sid |-> TheSnapshot(rtSnapshots,
                                        VersionSnapshotName(cidOf(p), mop[p].v)),
                              data |-> rtSnapshots[TheSnapshot(rtSnapshots,
                                        VersionSnapshotName(cidOf(p), mop[p].v))].data]}
             ELSE made
  /\ UNCHANGED <<rtVars, dbContainers, dbSnapshots, dbVersions, fsw>>
  /\ UNCHANGED mgrOthers

\* Delete: delete the container with snapshot cleanup
DeleteRuntime(p, ok) ==
  /\ mop[p].pc = "container"
  /\ LET r == DeleteContainer(rtContainers, rtSnapshots, rtTasks, cidOf(p), TRUE)
     IN IF ~ok THEN MgrReturn(p, "error") /\ UNCHANGED <<rtContainers, rtSnapshots>>
        ELSE /\ rtContainers' = r.cs
             /\ rtSnapshots' = r.snaps
             /\ IF r.err # "nil" THEN MgrReturn(p, r.err) ELSE MgrGoto(p, "rows")
  /\ UNCHANGED <<rtTasks, dbVars, fsw, made, hist>>
  /\ UNCHANGED mgrOthers

\* Delete: delete the container row; snapshots, versions and events cascade
DeleteRows(p, ok) ==
  /\ mop[p].pc = "rows"
  /\ IF ~ok THEN MgrReturn(p, "error") /\ UNCHANGED dbVars
     ELSE /\ dbContainers' = CascadeSet(dbContainers, cidOf(p))
          /\ dbSnapshots' = CascadeSet(dbSnapshots, cidOf(p))
          /\ dbVersions' = CascadeSet(dbVersions, cidOf(p))
          /\ dbEvents' = CascadeSeq(dbEvents, cidOf(p))
          /\ MgrGoto(p, "event")
  /\ UNCHANGED <<rtVars, fsw, made, hist>>
  /\ UNCHANGED mgrOthers

\* CreateVersion: BEGIN; v = next_version(container_id)
VersionNext(p, ok) ==
  /\ mop[p].pc = "next"
  /\ IF ~ok THEN MgrReturn(p, "error")
     ELSE IF MaxPlusOne(dbVersions, cidOf(p)) > MaxVersion THEN MgrReturn(p, "error")
     ELSE /\ mop' = [mop EXCEPT ![p].pc = "commit",
                                ![p].v = MaxPlusOne(dbVersions, cidOf(p))]
          /\ UNCHANGED locks
  /\ UNCHANGED <<rtVars, dbVars, fsw, made, hist>>
  /\ UNCHANGED mgrOthers

\* CreateVersion: commit the writable snapshot to container_id:v<N>
VersionCommit(p, ok) ==
  /\ mop[p].pc = "commit"
  /\ LET r == CommitSnapshot(rtSnapshots, VersionSnapshotName(cidOf(p), mop[p].v),
                             cidOf(p))
     IN IF ~ok THEN MgrReturn(p, "error") /\ UNCHANGED rtSnapshots
        ELSE /\ rtSnapshots' = r.snaps
             /\ IF r.err # "nil" THEN MgrReturn(p, r.err) ELSE MgrGoto(p, "prepare")
  /\ UNCHANGED <<rtContainers, rtTasks, dbVars, fsw, made, hist>>
  /\ UNCHANGED mgrOthers

\* CreateVersion: prepare a new writable snapshot parented on the commit
VersionPrepare(p, ok) ==
  /\ mop[p].pc = "prepare"
  /\ LET r == PrepareSnapshot(rtSnapshots, cidOf(p),
                              VersionSnapshotName(cidOf(p), mop[p].v))
     IN IF ~ok THEN MgrGoto(p, "compensate") /\ UNCHANGED rtSnapshots
        ELSE /\ rtSnapshots' = r.snaps
             /\ IF r.err # "nil" THEN MgrGoto(p, "compensate") ELSE MgrGoto(p, "vrows")
  /\ UNCHANGED <<rtContainers, rtTasks, dbVars, fsw, made, hist>>
  /\ UNCHANGED mgrOthers

\* CreateVersion: insert the snapshot row and the version row; COMMIT
VersionRows(p, ok) ==
  /\ mop[p].pc = "vrows"
  /\ IF ~ok \/ ~HasRow(dbContainers, cidOf(p))
          \/ mop[p].v \in VersionNumbers(dbVersions, cidOf(p))
       THEN MgrGoto(p, "compensate") /\ UNCHANGED <<dbSnapshots, dbVersions>>
     ELSE /\ dbSnapshots' = dbSnapshots \cup
               {[id |-> VersionSnapshotName(cidOf(p), mop[p].v),
                 container_id |-> cidOf(p)]}
          /\ dbVersions' = dbVersions \cup
               {[container_id |-> cidOf(p), version |-> mop[p].v,
                 snapshot_id |-> VersionSnapshotName(cidOf(p), mop[p].v)]}
          /\ MgrGoto(p, "event")
  /\ UNCHANGED <<rtVars, dbContainers, dbEvents, fsw, made, hist>>
  /\ UNCHANGED mgrOthers

\* CreateVersion failed after the commit: ROLLBACK, and best-effort delete of
\* the named snapshot
VersionCompensate(p, ok) ==
  /\ mop[p].pc = "compensate"
  /\ rtSnapshots' = IF ok THEN RemoveSnapshot(rtSnapshots,
                                 VersionSnapshotName(cidOf(p), mop[p].v)).snaps
                    ELSE rtSnapshots
  /\ MgrReturn(p, "error")
  /\ UNCHANGED <<rtContainers, rtTasks, dbVars, fsw, made, hist>>
  /\ UNCHANGED mgrOthers

\* Rollback: snapshot_id(version), NotFound when the version is absent
RollbackResolve(p, ok) ==
  /\ mop[p].pc = "resolve"
  /\ IF ~ok THEN MgrReturn(p, "error")
     ELSE IF SnapshotIDOf(dbVersions, cidOf(p), mop[p].v) = {} THEN MgrReturn(p, "NotFound")
     ELSE MgrGoto(p, "rdelete")
  /\ UNCHANGED <<rtVars, dbVars, fsw, made, hist>>
  /\ UNCHANGED mgrOthers

\* Rollback: delete the container without snapshot cleanup
RollbackDelete(p, ok) ==
  /\ mop[p].pc = "rdelete"
  /\ LET r == DeleteContainer(rtContainers, rtSnapshots, rtTasks, cidOf(p), FALSE)
     IN IF ~ok THEN MgrReturn(p, "error") /\ UNCHANGED rtContainers
        ELSE /\ rtContainers' = r.cs
             /\ IF r.err # "nil" THEN MgrReturn(p, r.err) ELSE MgrGoto(p, "rremove")
  /\ UNCHANGED <<rtSnapshots, rtTasks, dbVars, fsw, made, hist>>
  /\ UNCHANGED mgrOthers

\* Rollback: delete the writable snapshot the container had
RollbackRemove(p, ok) ==
  /\ mop[p].pc = "rremove"
  /\ LET r == RemoveSnapshot(rtSnapshots, cidOf(p))
     IN IF ~ok THEN MgrReturn(p, "error") /\ UNCHANGED rtSnapshots
        ELSE /\ rtSnapshots' = r.snaps
             /\ IF r.err # "nil" THEN MgrReturn(p, r.err) ELSE MgrGoto(p, "rprepare")
  /\ UNCHANGED <<rtContainers, rtTasks, dbVars, fsw, made, hist>>
  /\ UNCHANGED mgrOthers

\* Rollback: prepare a fresh writable snapshot parented on snapshot_id(version)
RollbackPrepare(p, ok) ==
  /\ mop[p].pc = "rprepare"
  /\ LET r == PrepareSnapshot(rtSnapshots, cidOf(p),
                CHOOSE s \in SnapshotIDOf(dbVersions, cidOf(p), mop[p].v) : TRUE)
     IN IF ~ok THEN MgrReturn(p, "error") /\ UNCHANGED rtSnapshots
        ELSE /\ rtSnapshots' = r.snaps
             /\ IF r.err # "nil" THEN MgrReturn(p, r.err) ELSE MgrGoto(p, "rcreate")
  /\ UNCHANGED <<rtContainers, rtTasks, dbVars, fsw, made, hist>>
  /\ UNCHANGED mgrOthers

\* Rollback: create the container again, bound to the prepared snapshot; the
\* history keeps what Read returns the moment the rollback has taken effect
RollbackCreated(p) ==
  CreateContainerFromSnapshot(rtContainers, rtSnapshots,
    [ID |-> cidOf(p), ImageRef |-> ImageRef, SnapshotID |-> cidOf(p),
     Labels |-> mop[p].user])

RollbackCreate(p, ok) ==
  /\ mop[p].pc = "rcreate"
  /\ LET r == RollbackCreated(p)
     IN IF ~ok THEN MgrReturn(p, "error") /\ UNCHANGED rtContainers
        ELSE /\ rtContainers' = r.cs
             /\ IF r.err # "nil" THEN MgrReturn(p, r.err) ELSE MgrGoto(p, "event")
  /\ hist' = IF ok /\ RollbackCreated(p).err = "nil"
             THEN [hist EXCEPT ![mop[p].user].rollV = mop[p].v,
                               ![mop[p].user].rollData =
                                  rtSnapshots[TheSnapshot(rtSnapshots, cidOf(p))].data]
             ELSE hist
  /\ UNCHANGED <<rtSnapshots, rtTasks, dbVars, fsw, made>>
  /\ UNCHANGED mgrOthers

\* WriteAtomic, ApplyPatch: mountUser mounts the snapshot of the container
FsMount(u) ==
  /\ fsw.pc = "idle"
  /\ ReadData(u) # "none"
  /\ TheContainer(rtContainers, ContainerID(u)).label = u
  /\ fsw' = [fsw EXCEPT !.pc = "mounted", !.user = u,
               !.sid = TheSnapshot(rtSnapshots,
                         TheContainer(rtContainers, ContainerID(u)).snapshotKey)]
  /\ UNCHANGED <<rtVars, dbVars, locks, mop, made, hist>>
  /\ UNCHANGED mgrOthers

\* the rename of writeFileAtomic lands in the storage that was mounted, or the
\* write fails; then the deferred mount.Unmount()
FsWriteFile(d) ==
  /\ fsw.pc = "mounted"
  /\ rtSnapshots' = IF d \in FileContents /\ rtSnapshots[fsw.sid].kind # "removed"
                    THEN [rtSnapshots EXCEPT ![fsw.sid].data = d]
                    ELSE rtSnapshots
  /\ fsw' = [fsw EXCEPT !.pc = "idle"]
  /\ UNCHANGED <<rtContainers, rtTasks, dbVars, locks, mop, made, hist>>
  /\ UNCHANGED mgrOthers

MgrNext ==
  \/ \E p \in Threads, c \in MgrCalls, v \in 0..MaxVersion :
       MgrEnter(p, c[1], c[2], v)
  \/ \E p \in Threads, ok \in BOOLEAN : EnsureList(p, ok)
  \/ \E p \in Threads, ok \in BOOLEAN : EnsureReconcile(p, ok)
  \/ \E p \in Threads, ok \in BOOLEAN : EnsureCreate(p, ok)
  \/ \E p \in Threads, ok \in BOOLEAN : EnsureInsert(p, ok)
  \/ \E p \in Threads, ok \in BOOLEAN : StartLoad(p, ok)
  \/ \E p \in Threads, ok \in BOOLEAN : StartRun(p, ok)
  \/ \E p \in Threads, ok \in BOOLEAN : MgrStopTask(p, ok)
  \/ \E p \in Threads, ok \in BOOLEAN : MgrDeleteTask(p, ok)
  \/ \E p \in Threads, ok \in BOOLEAN : MgrStatus(p, ok)
  \/ \E p \in Threads, ok \in BOOLEAN : MgrEvent(p, ok)
  \/ \E p \in Threads, ok \in BOOLEAN : DeleteRuntime(p, ok)
  \/ \E p \in Threads, ok \in BOOLEAN : DeleteRows(p, ok)
  \/ \E p \in Threads, ok \in BOOLEAN : VersionNext(p, ok)
  \/ \E p \in Threads, ok \in BOOLEAN : VersionCommit(p, ok)
  \/ \E p \in Threads, ok \in BOOLEAN : VersionPrepare(p, ok)
  \/ \E p \in Threads, ok \in BOOLEAN : VersionRows(p, ok)
  \/ \E p \in Threads, ok \in BOOLEAN : VersionCompensate(p, ok)
  \/ \E p \in Threads, ok \in BOOLEAN : RollbackResolve(p, ok)
  \/ \E p \in Threads, ok \in BOOLEAN : RollbackDelete(p, ok)
  \/ \E p \in Threads, ok \in BOOLEAN : RollbackRemove(p, ok)
  \/ \E p \in Threads, ok \in BOOLEAN : RollbackPrepare(p, ok)
  \/ \E p \in Threads, ok \in BOOLEAN : RollbackCreate(p, ok)
  \/ FsMount("alice")
  \/ \E d \in FileContents \cup {"failed"} : FsWriteFile(d)

----------------------------------------------------------------------------
(* Specifications *)

VerInit == VerIdle /\ DiffIdle /\ PathIdle /\ JoinIdle /\ FsIdle /\ ReqIdle /\ StopIdle /\ MgrIdle /\ RaceIdle /\ ChatIdle

SpecVer == VerInit /\ [][VerNext]_vars

PathInit == PathStart /\ VerIdle /\ DiffIdle /\ JoinIdle /\ FsIdle /\ ReqIdle /\ StopIdle /\ MgrIdle /\ RaceIdle /\ ChatIdle

SpecPath == PathInit /\ [][PathNext]_vars

DiffInit == DiffStart /\ VerIdle /\ PathIdle /\ JoinIdle /\ FsIdle /\ ReqIdle /\ StopIdle /\ MgrIdle /\ RaceIdle /\ ChatIdle

JoinInit == JoinStart /\ VerIdle /\ DiffIdle /\ PathIdle /\ FsIdle /\ ReqIdle /\ StopIdle /\ MgrIdle /\ RaceIdle /\ ChatIdle

SpecJoin == JoinInit /\ [][JoinNext]_vars

FsInit == FsStartWrite /\ VerIdle /\ DiffIdle /\ PathIdle /\ JoinIdle /\ ReqIdle /\ StopIdle /\ MgrIdle /\ RaceIdle /\ ChatIdle

SpecFS == FsInit /\ [][FsNext]_vars

PatchInit == FsStartPatch /\ VerIdle /\ DiffIdle /\ PathIdle /\ JoinIdle /\ ReqIdle /\ StopIdle /\ MgrIdle /\ RaceIdle /\ ChatIdle

SpecPatch == PatchInit /\ [][PatchNext]_vars

ApplyInit == ApplyStart /\ VerIdle /\ DiffIdle /\ PathIdle /\ JoinIdle /\ ReqIdle /\ StopIdle /\ MgrIdle /\ RaceIdle /\ ChatIdle

SpecApply == ApplyInit /\ [][ApplyNext]_vars

RaceInit == RaceStart /\ VerIdle /\ DiffIdle /\ PathIdle /\ JoinIdle /\ ReqIdle /\ StopIdle /\ MgrIdle /\ ChatIdle

SpecRace == RaceInit /\ [][RaceNext]_vars

ReqInit == ReqStart /\ VerIdle /\ DiffIdle /\ PathIdle /\ JoinIdle /\ FsIdle /\ StopIdle /\ MgrIdle /\ RaceIdle /\ ChatIdle

SpecReq == ReqInit /\ [][ReqNext]_vars

SpecDiff == DiffInit /\ [][DiffNext]_vars

StopInit == StopStart /\ VerIdle /\ DiffIdle /\ PathIdle /\ JoinIdle /\ FsIdle /\ ReqIdle /\ MgrIdle /\ RaceIdle /\ ChatIdle

SpecStop == StopInit /\ [][StopNext]_vars

MgrInit == MgrStart /\ VerIdle /\ DiffIdle /\ PathIdle /\ JoinIdle /\ FsIdle /\ ReqIdle /\ StopIdle /\ RaceIdle /\ ChatIdle

SpecMgr == MgrInit /\ [][MgrNext]_vars

ChatInit == ChatStart /\ VerIdle /\ DiffIdle /\ PathIdle /\ JoinIdle /\ FsIdle /\ ReqIdle /\ StopIdle /\ MgrIdle /\ RaceIdle

SpecChat == ChatInit /\ [][ChatNext]_vars

----------------------------------------------------------------------------
(* Claims *)


----------------------------------------------------------------------------
(* C1: after N successful CreateVersion calls on user u, ListVersions(u) is
   exactly 1, 2, ..., N in ascending order, and every successful call returned
   (largest version existing at its insert) + 1, or 1 for the first. *)
C1_VersionsDense ==
  /\ \A u \in Users :
       ListVersionsByContainerID(ContainerID(u)) = [i \in 1..succeeded[u] |-> i]
  /\ \A k \in 1..Len(returned) : returned[k].version = returned[k].maxBefore + 1

C1_Witness ==
  \E u \in Users : succeeded[u] = 3 /\ ListVersionsByContainerID(ContainerID(u)) = <<1, 2, 3>>

(* C2: two concurrent CreateVersion calls on one container never both succeed
   with the same version number, and the catalogue never holds two rows with
   the same (container_id, version). *)
C2_NoDuplicateVersion ==
  /\ \A i, j \in 1..Len(container_versions) :
       (i # j /\ container_versions[i].container_id = container_versions[j].container_id)
         => container_versions[i].version # container_versions[j].version
  /\ \A i, j \in 1..Len(returned) :
       (i # j /\ returned[i].container_id = returned[j].container_id)
         => returned[i].version # returned[j].version

\* two callers hold the same version number for the same container and one has inserted it
C2_Witness ==
  \E c \in Callers :
    /\ cv[c].pc = "insert"
    /\ \E k \in 1..Len(returned) :
         /\ returned[k].caller # c
         /\ returned[k].container_id = ContainerID(cv[c].user)
         /\ returned[k].version = cv[c].v

(* C4: round trip. For all texts O and O', applying the diff that unifiedDiff
   produces from O (old side) to O' (new side) onto O with applyUnifiedPatch
   succeeds and yields exactly O'. *)
C4_RoundTrip ==
  dPc = "applied" => (dResult.err = "" /\ dResult.text = dNew)

(* C6: for every request path, resolve_container_path either fails or returns
   a lexically clean path that is the data mount or lies beneath it; a request
   that resolves outside the data mount is rejected (400) and no host file is
   read for it. *)
C6_ContainedOrRejected ==
  pPc = "done" =>
    \/ pStatus = 400 /\ pHostReads = {}
    \/ /\ pStatus # 400
       /\ Clean(pContainerPath) = pContainerPath
       /\ pathWithin(pContainerPath, Clean(pMount))

(* C7: for every container path an FS operation accepts and every arrangement
   of symlinks inside the mounted snapshot, the host path the operation
   finally reads or writes is the mount directory or a descendant of it. *)
C7_StaysInMount ==
  \A a \in jAccess : pathWithin(a.loc, MountDir)

(* C3: while one WriteAtomic(p, new) runs on a file whose content is old,
   every Read(p) that succeeds returns old in full or new in full, and a Read
   that starts after the rename has completed returns new. *)
C3_ReadsOldOrNew ==
  \A r \in Readers :
    (rd[r].pc = "done" /\ rd[r].status = 200) =>
      /\ rd[r].buf = w.old \/ rd[r].buf = w.data
      /\ rd[r].after => rd[r].buf = w.data

C3_Witness ==
  /\ w.old # w.data /\ w.renamed
  /\ rd[1].pc = "done" /\ rd[1].status = 200 /\ rd[1].buf = w.old
  /\ rd[2].pc = "done" /\ rd[2].status = 200 /\ rd[2].buf = w.data /\ rd[2].after

(* C5: when ApplyPatch meets a context or deletion line that differs from the
   original line at the cursor, or the cursor is past the last original line,
   it fails with patch context mismatch / patch delete mismatch (400) and the
   target's content, mode and existence are as before the call: nothing was
   renamed and no temporary file is left. *)
C5_MismatchLeavesFile ==
  w.err \in {"patch context mismatch", "patch delete mismatch"} =>
    /\ w.pc = "done" /\ w.status = 400
    /\ fDir = [n \in {Target, Tmp} |-> IF n = Target THEN 1 ELSE 0]
    /\ fInodes = <<[data |-> w.old, mode |-> w.oldMode, mtime |-> 0]>>

C5_Witness ==
  /\ w.pc = "done" /\ w.err = "patch delete mismatch"
  /\ w.orig = <<"a", NL, "b">>
  /\ w.patch = Join(<<<<"@", "@", " ", "-", "1", " ", "+", "1", " ", "@", "@">>,
                      <<" ", "a">>, <<"-", "a">>>>, <<NL>>)

\* the request is over, its caller passed validation, and the container it names
\* exists with a user label that is absent or differs from the caller
C8_OnForeignContainer ==
  /\ req.pc = "done" /\ req.op \in HttpOps /\ req.userID # <<>>
  /\ qContainer.exists
  /\ (~qContainer.hasLabel \/ qContainer.label # req.userID)

C8_NothingChanged ==
  /\ qFiles = 0 /\ qRows = <<1>>
  /\ \A h \in 1..Len(qMounts) : ~qMounts[h].live

(* C8: every FS operation by caller u on a container whose user label is
   absent or differs from u fails with Forbidden (403), and afterwards the
   files, the catalogue rows and the live mounts are as before. *)
C8_ForbiddenAlways ==
  C8_OnForeignContainer => (req.status = 403 /\ C8_NothingChanged)

(* C8, amended: such a request never succeeds and changes nothing; it fails
   with 403 when its own arguments pass the handler's checks and the mount
   attempt does not fail, with 400 when its arguments are refused first, and
   with 500 when the runtime call fails. *)
C8_ForbiddenOrRefused ==
  C8_OnForeignContainer =>
    /\ C8_NothingChanged
    /\ req.status = IF ~ArgsValid(req) THEN 400 ELSE IF req.envFailed THEN 500 ELSE 403

C8_Witness ==
  /\ req.pc = "done" /\ req.op = "write" /\ req.userID = <<97>>
  /\ qContainer = [exists |-> TRUE, hasLabel |-> TRUE, label |-> OtherLabel]
  /\ req.status = 403 /\ Len(qMounts) = 1 /\ qMounts[1].releases = 1

\* the user id the operation was called with
C9_CallerID == IF req.op = "cli" THEN req.claims.user_id ELSE UserIDFromContext(req.claims)

\* s is empty or has a character outside [A-Za-z0-9_-]
C9_BadID ==
  \/ C9_CallerID = <<>>
  \/ \E i \in 1..Len(C9_CallerID) :
       C9_CallerID[i] \notin (48..57) \cup (65..90) \cup (97..122) \cup {45, 95}

(* C9: every public operation called with a user id that is empty or has a
   character outside [A-Za-z0-9_-] fails with InvalidArgument, and no runtime
   call, snapshot mount or database query is issued for it. *)
C9_InvalidArgumentAlways ==
  (req.pc = "done" /\ C9_BadID) => (req.status = 400 /\ qCalls = {} /\ qMounts = <<>>)

(* C9, amended: such a call issues no runtime call, mount or query; it fails
   with InvalidArgument, except that an HTTP entry point whose token carries
   no user id at all fails with 401 (user id missing). *)
C9_RefusedBeforeAnyCall ==
  (req.pc = "done" /\ C9_BadID) =>
    /\ qCalls = {} /\ qMounts = <<>>
    /\ req.status = IF C9_CallerID = <<>> /\ req.op \in HttpOps THEN 401 ELSE 400

C9_Witness ==
  /\ req.pc = "done" /\ req.op = "read" /\ C9_CallerID = <<97, 47>>
  /\ req.status = 400 /\ qCalls = {}

(* C10: on every exit path of an FS request each snapshot mount acquired
   during the request has been released exactly once before the request
   returns; none is live when no request is in flight; a mount attempt that
   fails leaves no mount behind. *)
C10_MountsReleased ==
  /\ \A h \in 1..Len(qMounts) :
       /\ qMounts[h].releases <= 1
       /\ qMounts[h].live <=> qMounts[h].releases = 0
       /\ qMounts[h].live => \E i \in 1..Len(req.defers) : req.defers[i] = h
  /\ req.pc = "done" => \A h \in 1..Len(qMounts) : ~qMounts[h].live /\ qMounts[h].releases = 1

C10_Witness ==
  /\ req.pc = "done" /\ req.op = "diff" /\ req.status = 500
  /\ Len(qMounts) = 2 /\ qMounts[1].releases = 1 /\ qMounts[2].releases = 1

----------------------------------------------------------------------------
\* StopTask has returned from its select statement or from what follows it
C19_Returned == stk.pc = "done" /\ stk.branch # "none"

\* what the caller asked for, read off the options
C19_Signal == IF stk.opts.has /\ stk.opts.Signal # 0 THEN stk.opts.Signal ELSE SIGTERM

C19_Force == stk.opts.has /\ stk.opts.Force

\* the requested signal was sent first and once; anything after it is SIGKILL
C19_SignalOnce ==
  /\ Len(kills) \in {1, 2}
  /\ kills[1] = C19_Signal
  /\ Len(kills) = 2 => kills[2] = SIGKILL

(* C19 as stated: StopTask sends the requested signal (SIGTERM when none is
   given) once and waits for the exit at most the timeout; a task that exits
   before the timeout has passed gives success and no SIGKILL; when the
   timeout passes first, force=true gives SIGKILL and success only after the
   exit was observed, and force=false gives TaskStopTimeout, no SIGKILL and a
   task that is still running. *)
C19_ExitInTimeOrTimeout ==
  C19_Returned =>
    /\ C19_SignalOnce
    /\ (task.status = "stopped" /\ task.inTime) =>
         (stk.err = "nil" /\ kills = <<C19_Signal>>)
    /\ (~(task.status = "stopped" /\ task.inTime) /\ timerC /\ C19_Force) =>
         /\ kills = <<C19_Signal, SIGKILL>>
         /\ stk.err = "nil" => statusC
    /\ (~(task.status = "stopped" /\ task.inTime) /\ timerC /\ ~C19_Force) =>
         /\ stk.err = "ErrTaskStopTimeout"
         /\ kills = <<C19_Signal>>
         /\ task.status = "running"

(* C19 amended: StopTask sends the requested signal (SIGTERM when none is
   given) once and then takes whichever of the exit status and the timer its
   select statement finds ready.  Exit status ready and timer not: success,
   no SIGKILL.  Timer ready and exit status not: with force=true SIGKILL is
   sent and success is returned only after the exit was observed; with
   force=false TaskStopTimeout is returned and no SIGKILL is sent.  Both
   ready: one of these outcomes. *)
C19_FirstObserved ==
  C19_Returned =>
    /\ C19_SignalOnce
    /\ (stk.sawStatus /\ ~stk.sawTimer) =>
         (stk.err = "nil" /\ kills = <<C19_Signal>>)
    /\ (stk.sawTimer /\ ~stk.sawStatus /\ C19_Force) =>
         /\ kills = <<C19_Signal, SIGKILL>>
         /\ stk.err \in {"nil", "force kill failed"}
         /\ stk.err = "nil" => (statusC /\ task.status = "stopped")
    /\ (stk.sawTimer /\ ~stk.sawStatus /\ ~C19_Force) =>
         /\ stk.err = "ErrTaskStopTimeout"
         /\ kills = <<C19_Signal>>
    /\ (stk.sawTimer /\ stk.sawStatus) =>
         \/ stk.err = "nil" /\ kills = <<C19_Signal>>
         \/ C19_Force /\ kills = <<C19_Signal, SIGKILL>>
              /\ stk.err \in {"nil", "force kill failed"}
         \/ ~C19_Force /\ stk.err = "ErrTaskStopTimeout" /\ kills = <<C19_Signal>>

\* a forced stop: the timer fired first, SIGKILL was sent, the exit observed
C19_Witness ==
  /\ C19_Returned
  /\ stk.sawTimer /\ ~stk.sawStatus /\ C19_Force
  /\ stk.err = "nil"
  /\ kills = <<SIGTERM, SIGKILL>>

----------------------------------------------------------------------------
\* no manager operation for user u is in flight
Quiescent(u) == \A p \in Threads : mop[p].pc = "idle" \/ mop[p].user # u

LabelledContainers(u) == ListContainersByLabel(rtContainers, UserLabelKey, u).list

ContainerRows(u) == {r \in dbContainers : r.container_id = ContainerID(u)}

(* C11: at every quiescent point at most one container labelled user=u exists
   in the runtime and at most one container row in the catalogue, with at most
   one writable snapshot and one row for it; and exactly one container exists
   once an EnsureUser(u) has succeeded with no later Delete(u). *)
C11_OneContainerPerUser ==
  \A u \in Users :
    Quiescent(u) =>
      /\ Cardinality(LabelledContainers(u)) <= 1
      /\ Cardinality(ContainerRows(u)) <= 1
      /\ Cardinality(SnapshotAt(rtSnapshots, ContainerID(u))) <= 1
      /\ Cardinality({r \in dbSnapshots : r.id = ContainerID(u)}) <= 1
      /\ hist[u].ensured => Cardinality(LabelledContainers(u)) = 1

----------------------------------------------------------------------------
\* thread p may make a call now: the bound on calls and the naming of threads
CanCall(p) ==
  /\ mop[p].pc = "idle"
  /\ fsw.ops < MaxMgrOps
  /\ p = "t2" => mop["t1"].pc # "idle"

(* C12: no two manager operations for the same user are inside their critical
   sections at once; an operation holds the lock of its user from entry to
   exit and the lock is free again after every exit, error exits included; and
   a call for user u enters at once unless an operation for u itself is in
   flight, whatever locks operations for other users hold. *)
C12_PerUserLock ==
  /\ \A p, q \in Threads :
       (p # q /\ InCriticalSection(p) /\ InCriticalSection(q))
         => mop[p].user # mop[q].user
  /\ \A p \in Threads : InCriticalSection(p) => locks[mop[p].user] = p
  /\ \A u \in Users :
       locks[u] # "" => (InCriticalSection(locks[u]) /\ mop[locks[u]].user = u)
  /\ \A p \in Threads, c \in MgrCalls :
       (CanCall(p) /\ Quiescent(c[2]))
         => ENABLED MgrEnter(p, c[1], c[2], IF c[1] = "Rollback" THEN 1 ELSE 0)

\* an operation for bob enters while one for alice is in its critical section
C12_Witness ==
  /\ InCriticalSection("t1") /\ mop["t1"].user = "alice"
  /\ InCriticalSection("t2") /\ mop["t2"].user = "bob"
  /\ locks = [u \in Users |-> IF u = "alice" THEN "t1" ELSE "t2"]

----------------------------------------------------------------------------
\* the started and stopped events of the container of u, oldest first
StartStopEvents(u) ==
  SelectSeq(dbEvents, LAMBDA e : e.container_id = ContainerID(u)
                                  /\ e.event_type \in {"started", "stopped"})

StatusOf(u) == (CHOOSE r \in ContainerRows(u) : TRUE).status

(* C13: when Start(u) and Stop(u) calls, and no others, have been made in any
   interleaving and all have returned, the status of the container is running
   or stopped, it is running exactly when the runtime has a running task for
   the container, and the last started or stopped event is the one of that
   status. *)
C13_StartStopConsistent ==
  \A u \in Users :
    (Quiescent(u) /\ hist[u].calls = "startstop" /\ ContainerRows(u) # {}) =>
      /\ StatusOf(u) \in {"running", "stopped"}
      /\ (StatusOf(u) = "running") = (rtTasks[ContainerID(u)] = "running")
      /\ StartStopEvents(u) # <<>>
      /\ StartStopEvents(u)[Len(StartStopEvents(u))].event_type
           = (IF StatusOf(u) = "running" THEN "started" ELSE "stopped")

\* the versions CreateVersion has returned whose snapshot the runtime still has
MadeAlive ==
  {m \in made : /\ rtSnapshots[m.sid].kind = "committed"
                /\ rtSnapshots[m.sid].key = m.snapshot_id}

\* C17: version snapshots are immutable: once CreateVersion(u) has returned
\* version v, the file contents of the snapshot recorded for v never change,
\* whatever FS write, CreateVersion or Rollback follows, including an FS write
\* that holds its own mount of the writable snapshot and races with the
\* CreateVersion that commits it.
C17_VersionImmutable ==
  \A m \in MadeAlive : rtSnapshots[m.sid].data = m.data

\* C14: if CreateVersion(u) produced version v when Read returned content c,
\* then after any later writes and CreateVersions followed by a successful
\* Rollback(u, v), Read returns exactly c (a file absent at v is absent again).
C14_RollbackRestores ==
  \A u \in Users :
    hist[u].rollV # 0 =>
      \E m \in made : /\ m.container_id = ContainerID(u)
                      /\ m.version = hist[u].rollV
                      /\ m.data = hist[u].rollData

\* the version snapshots of the runtime: where each is stored and its name
VersionSnapshots ==
  {<<i, rtSnapshots[i].key>> : i \in {j \in DOMAIN rtSnapshots :
                                        rtSnapshots[j].kind = "committed"}}

\* a CreateVersion that has computed its number
Numbered(p) ==
  mop[p].op = "CreateVersion" /\ mop[p].pc \in {"commit", "prepare", "vrows"}

\* C15: Rollback(u, v) leaves the version rows and the version snapshots of u's
\* container unchanged: every version, those greater than v included, still
\* exists and resolves to the same snapshot id; and the first CreateVersion
\* after a rollback is numbered MAX(existing version) + 1, not v + 1.
C15_RollbackKeepsVersions ==
  [][/\ \A p \in Threads :
          mop[p].op = "Rollback" =>
            /\ dbVersions' = dbVersions
            /\ VersionSnapshots' = VersionSnapshots
     /\ \A p \in Threads :
          (~Numbered(p) /\ Numbered(p)') =>
            /\ \A n \in VersionNumbers(dbVersions, cidOf(p)') : mop'[p].v > n
            /\ mop'[p].v = 1 \/ mop'[p].v - 1 \in VersionNumbers(dbVersions, cidOf(p)')]_vars

\* a CreateVersion numbered 3 after a rollback to version 1, version 2 still there
C15_Witness ==
  \E p \in Threads :
    /\ Numbered(p)
    /\ mop[p].v = 3
    /\ hist[mop[p].user].rollV = 1
    /\ SnapshotIDOf(dbVersions, cidOf(p), 2) = {VersionSnapshotName(cidOf(p), 2)}
    /\ \E x \in VersionSnapshots : x[2] = VersionSnapshotName(cidOf(p), 2)

\* no CreateVersion for user u is in flight
NoVersionInFlight(u) ==
  \A p \in Threads : ~(mop[p].op = "CreateVersion" /\ mop[p].user = u)

\* the runtime snapshots named container_id:vN of user u
NamedVersionSnapshots(u) ==
  {x \in VersionSnapshots :
     \E n \in 1..(MaxVersion + 1) : x[2] = VersionSnapshotName(ContainerID(u), n)}

\* C16: whenever no CreateVersion is in flight, a runtime snapshot named
\* container_id:vN exists only if the catalogue has a version row
\* (container_id, N) pointing at it; and after a CreateVersion that failed at
\* any step, any version snapshot it created is removed and the container still
\* has a usable writable snapshot.
C16_NoOrphanVersionSnapshot ==
  \A u \in Users :
    (/\ NoVersionInFlight(u)
     /\ HasContainer(rtContainers, ContainerID(u))
     /\ HasRow(dbContainers, ContainerID(u))) =>
      /\ \A x \in NamedVersionSnapshots(u) :
           \E r \in dbVersions : /\ r.container_id = ContainerID(u)
                                 /\ r.snapshot_id = x[2]
                                 /\ x[2] = VersionSnapshotName(ContainerID(u), r.version)
      /\ HasSnapshot(rtSnapshots, TheContainer(rtContainers, ContainerID(u)).snapshotKey)

\* C18: for every existing user container the container id is "memoh-user-" +
\* user_id, the key of its writable snapshot equals the container id, and every
\* version row numbered N has snapshot_id = container_id + ":v" + N; EnsureUser,
\* CreateVersion and Rollback preserve this, and Rollback keeps the container id.
C18_Naming ==
  /\ \A c \in rtContainers : /\ c.label \in Users
                             /\ c.id = ContainerID(c.label)
                             /\ c.snapshotKey = c.id
  /\ \A r \in dbContainers : \E u \in Users : r.container_id = ContainerID(u)
  /\ \A r \in dbVersions :
       /\ \E u \in Users : r.container_id = ContainerID(u)
       /\ r.snapshot_id = VersionSnapshotName(r.container_id, r.version)

\* the container Rollback created again, with a version CreateVersion made
C18_Witness ==
  /\ hist["alice"].rollV # 0
  /\ HasContainer(rtContainers, ContainerID("alice"))
  /\ \E m \in made : m.version > MaxSeedVersions /\
       [container_id |-> m.container_id, version |-> m.version,
        snapshot_id |-> m.snapshot_id] \in dbVersions

\* C20: at every point where no operation for user u is in flight, the
\* catalogue has a container row for memoh-user-u if and only if the runtime
\* has that container, also after an EnsureUser or Delete that failed part-way.
C20_RowIffContainer ==
  \A u \in Users :
    Quiescent(u) =>
      (HasRow(dbContainers, ContainerID(u)) <=> HasContainer(rtContainers, ContainerID(u)))

\* what the runtime and the catalogue hold for the container of user u
RuntimeGone(u) ==
  /\ rtTasks[ContainerID(u)] = "none"
  /\ ~HasContainer(rtContainers, ContainerID(u))
  /\ ~HasSnapshot(rtSnapshots, ContainerID(u))

RowsGone(u) ==
  /\ ~HasRow(dbContainers, ContainerID(u))
  /\ \A r \in dbSnapshots \cup dbVersions : r.container_id # ContainerID(u)

DeletedRecorded(u) ==
  \E i \in DOMAIN dbEvents : dbEvents[i] = [container_id |-> ContainerID(u),
                                            event_type |-> "deleted"]

\* a Delete returns success
DeleteReturns(p) ==
  mop[p].op = "Delete" /\ mop[p].pc = "event" /\ mop'[p].pc = "idle"

\* C21: after a successful Delete(u), whatever versions existed: the runtime has
\* no task, container or writable snapshot for memoh-user-u, the catalogue has
\* no container, snapshot or version row for it, and a deleted lifecycle event
\* for that container has been recorded.
C21_DeleteRemovesAll ==
  [][\A p \in Threads, u \in Users :
       (DeleteReturns(p) /\ mop[p].user = u) =>
         /\ RuntimeGone(u)'
         /\ RowsGone(u)'
         /\ DeletedRecorded(u)']_vars

\* C22: lifecycle events are append-only: once an event row has been inserted
\* no manager or catalogue operation, Delete of its container included, removes
\* or alters it, and the rows keep the order in which they were appended.
C22_EventsAppendOnly ==
  [][/\ Len(dbEvents') >= Len(dbEvents)
     /\ SubSeq(dbEvents', 1, Len(dbEvents)) = dbEvents]_vars

\* a Diff request of an authenticated caller with a valid path on the caller's
\* own container, answered without a failure of the runtime or the database
C23_DiffAnswered ==
  /\ req.op = "diff" /\ req.pc = "done" /\ ~req.envFailed
  /\ ValidateUserID(UserIDFromContext(req.claims))
  /\ qContainer.exists /\ LabelMatches(qContainer, UserIDFromContext(req.claims))
  /\ resolveContainerPath(DefaultDataMount, req.path).err = ""

\* the version asked for is a number with no version row
C23_VersionMissing ==
  /\ Atoi(req.version).ok
  /\ \A i \in 1..Len(qRows) : qRows[i] # Atoi(req.version).n

\* C23: Diff(path, version) called with version = 0, or with a version number
\* for which the caller's container has no version row, yields NotFound (404).
C23_MissingVersionNotFound ==
  (C23_DiffAnswered /\ C23_VersionMissing) => req.status = 404

\* content, mode and existence of the target
C24_Target ==
  IF fDir[Target] = 0 THEN [exists |-> FALSE, data |-> <<>>, mode |-> 0]
  ELSE [exists |-> TRUE, data |-> fInodes[fDir[Target]].data,
        mode |-> fInodes[fDir[Target]].mode]

\* C24: if WriteAtomic fails at any step between creating the temporary file
\* and the rename, the temporary file is removed and the target's content, mode
\* and existence are unchanged; the target changes only at the rename, in one
\* step; and after a successful call no temporary file remains.
C24_RenameIsCommitPoint ==
  w.op = "write" =>
    /\ C24_Target = IF w.renamed
                    THEN [exists |-> TRUE, data |-> w.data, mode |-> w.mode]
                    ELSE [exists |-> TRUE, data |-> w.old, mode |-> ModeDefault]
    /\ w.failed => ~w.renamed
    /\ w.pc = "done" => fDir[Tmp] = 0

\* a write that failed after part of the data was copied to the temporary file
C24_Witness ==
  /\ w.op = "write" /\ w.pc = "done" /\ w.failed
  /\ w.tmp # 0 /\ w.off > 0 /\ w.data # w.old

\* a Start that finds the task running
StartOnRunning(p) ==
  mop[p].op = "Start" /\ mop[p].pc = "load" /\ rtTasks[cidOf(p)] = "running"

\* a Stop of a container that has its row returns success
StopReturns(p, u) ==
  /\ mop[p].op = "Stop" /\ mop[p].user = u
  /\ mop[p].pc = "event" /\ mop'[p].pc = "idle"
  /\ HasRow(dbContainers, ContainerID(u))

\* C25: Start and Stop are idempotent on the observable state: Start(u) on a
\* container that is already running changes nothing (no second task, no status
\* change, no new started event), and Stop(u) on a container that has no task
\* succeeds and leaves the status stopped.
C25_StartStopIdempotent ==
  [][/\ \A p \in Threads :
          StartOnRunning(p) =>
            /\ mop'[p].pc \in {"load", "idle"}
            /\ UNCHANGED <<rtTasks, dbContainers, dbEvents>>
     /\ \A p \in Threads :
          (mop[p].op = "Stop" /\ rtTasks[cidOf(p)] = "none") =>
            /\ mop[p].pc = "stop" =>
                 ENABLED (MgrStopTask(p, TRUE) /\ mop'[p].pc = "deltask")
            /\ mop[p].pc = "deltask" =>
                 ENABLED (MgrDeleteTask(p, TRUE) /\ mop'[p].pc = "status")
     /\ \A p \in Threads, u \in Users :
          StopReturns(p, u) =>
            /\ StatusOf(u)' = "stopped"
            /\ rtTasks'[ContainerID(u)] = "none"]_vars

\* a second Stop, of a container already stopped and without a task, at its return
C25_Witness ==
  \E p \in Threads :
    /\ mop[p].op = "Stop" /\ mop[p].pc = "event"
    /\ rtTasks[cidOf(p)] = "none"
    /\ HasRow(dbContainers, cidOf(p))
    /\ StatusOf(mop[p].user) = "stopped"
    /\ StartStopEvents(mop[p].user) # <<>>
    /\ StartStopEvents(mop[p].user)[Len(StartStopEvents(mop[p].user))].event_type = "stopped"

\* the strict algorithm: results are [err, text]
C26_Target(header) ==
  IF parseUnifiedHunkHeader(header).n - 1 < 0 THEN 0 ELSE parseUnifiedHunkHeader(header).n - 1

\* the lines of O from cursor up to target, none when target is not beyond cursor
C26_Range(O, cursor, target) == SubSeq(O, cursor + 1, target)

\* k is the number of the patch line looked at; inHunk once a header was seen
RECURSIVE C26_Strict(_, _, _, _, _, _)
C26_Strict(O, P, k, cursor, N, inHunk) ==
  IF k > Len(P)
    THEN IF ~inHunk THEN Err("patch contains no hunks")
         ELSE Ok(Join(N \o C26_Range(O, cursor, Len(O)), <<NL>>))
  ELSE IF HasPrefix(P[k], HunkMarker)
    THEN IF ~parseUnifiedHunkHeader(P[k]).ok THEN Err("invalid hunk header")
         ELSE IF C26_Target(P[k]) > Len(O) THEN Err("patch out of range")
         ELSE C26_Strict(O, P, k + 1, C26_Target(P[k]),
                         N \o C26_Range(O, cursor, C26_Target(P[k])), TRUE)
  ELSE IF ~inHunk THEN C26_Strict(O, P, k + 1, cursor, N, FALSE)
  ELSE IF P[k] = <<>>
    THEN IF k = Len(P) THEN C26_Strict(O, P, k + 1, cursor, N, TRUE)
         ELSE Err("invalid patch line")
  ELSE IF P[k][1] = "\\" THEN C26_Strict(O, P, k + 1, cursor, N, TRUE)
  ELSE IF P[k][1] = " "
    THEN IF cursor < Len(O) /\ O[cursor + 1] = Tail(P[k])
         THEN C26_Strict(O, P, k + 1, cursor + 1, Append(N, Tail(P[k])), TRUE)
         ELSE Err("patch context mismatch")
  ELSE IF P[k][1] = "-"
    THEN IF cursor < Len(O) /\ O[cursor + 1] = Tail(P[k])
         THEN C26_Strict(O, P, k + 1, cursor + 1, N, TRUE)
         ELSE Err("patch delete mismatch")
  ELSE IF P[k][1] = "+" THEN C26_Strict(O, P, k + 1, cursor, Append(N, Tail(P[k])), TRUE)
  ELSE Err("invalid patch operation")

C26_StrictPatch(original, patch) ==
  C26_Strict(Split(original, NL), Split(patch, NL), 1, 0, <<>>, FALSE)

\* what applyUnifiedPatch returned to ApplyPatch
C26_Applied == w.op = "patch" /\ w.pc \in {"stat", "done"}

\* C26: for every original text O and patch text P, applyUnifiedPatch returns
\* the result of the strict algorithm: lines before a hunk's start copied,
\* context and deletion lines matched, additions emitted, the rest of O appended,
\* and the errors patch out of range, invalid patch line, invalid patch operation
\* and patch contains no hunks in the cases the algorithm names.
C26_AppliesStrictly ==
  C26_Applied =>
    /\ w.err = C26_StrictPatch(w.orig, w.patch).err
    /\ w.err = "" => w.data = C26_StrictPatch(w.orig, w.patch).text

\* C27: applyUnifiedPatch is total: it returns a new text or an error value and
\* never faults; when a later hunk starts before the cursor an earlier hunk
\* reached, it reports an error, and the file is left unmodified.
C27_Total ==
  C26_Applied =>
    /\ w.err # PanicSliceBounds
    /\ w.err # "" => /\ w.pc = "done"
                     /\ fInodes = <<[data |-> w.old, mode |-> w.oldMode, mtime |-> 0]>>
                     /\ fDir[Target] = 1 /\ fDir[Tmp] = 0

\* C28: the fields of one Read response describe a single image of the file:
\* the reported size equals the byte length of the returned content, also when
\* a WriteAtomic on the same path completes its rename between the handler's
\* stat and its read of the file.
C28_ReadOneImage ==
  \A r \in Readers :
    (rd[r].pc = "done" /\ rd[r].status = 200) => rd[r].size = Len(rd[r].buf)

\* the contents a serial run of the successful operations can leave: the other
\* write alone when the patch failed; else the patch and then the write, or the
\* write and then the patch where the patch applies to what was written
C29_SerialOutcomes ==
  IF w.status # 204 THEN {ow.data}
  ELSE {ow.data} \cup
       (IF applyUnifiedPatch(ow.data, w.patch).err = ""
        THEN {applyUnifiedPatch(ow.data, w.patch).text} ELSE {})

\* C29: ApplyPatch is atomic with respect to other writers of the same path: if
\* a WriteAtomic on that path completes between this ApplyPatch's read of the
\* original and its rename, the other update is not silently overwritten; the
\* final content equals the result of the successful operations in some serial
\* order.
C29_PatchSerializable ==
  (w.op = "patch" /\ w.pc = "done" /\ ow.done /\ fDir[Target] # 0) =>
    fInodes[fDir[Target]].data \in C29_SerialOutcomes


----------------------------------------------------------------------------
(* C30: StreamChat's producer follows its channel protocol on every path: *)
(* at most one error is sent on the error channel and that send never     *)
(* waits, the data chunks go out in the order the gateway sent them,      *)
(* nothing is sent on a channel after its close, and each channel is      *)
(* closed exactly once.                                                    *)

\* the chunks a sequence of lines of the event stream carries, in order
RECURSIVE C30_Forwarded(_)
C30_Forwarded(lines) ==
  IF lines = <<>> THEN <<>>
  ELSE LET line == TrimSpace(Head(lines))
           data == TrimSpace(SubSeq(line, Len(DataPrefix) + 1, Len(line)))
           isChunk == HasPrefix(line, DataPrefix) /\ data # <<>> /\ data # DoneMark
       IN (IF isChunk THEN <<data>> ELSE <<>>) \o C30_Forwarded(Tail(lines))

\* the chunk the producer holds at its send
C30_Pending == IF sc.pc = "send" THEN <<sc.data>> ELSE <<>>

C30_Returned == sc.pc \in {"closeErr", "closeChunk", "done"}

\* C30: the channel protocol of StreamChat's producer
C30_ChannelProtocol ==
  /\ Len(errChan.sent) <= 1
  /\ ~errChan.blocked
  /\ (C30_Returned /\ sc.err # "") => errChan.sent = <<sc.err>>
  /\ (C30_Returned /\ sc.err = "") => errChan.sent = <<>>
  /\ chunkChan.sent \o C30_Pending = C30_Forwarded(SubSeq(sc.body, 1, sc.pos))
  /\ (C30_Returned /\ sc.err = "") => chunkChan.sent = C30_Forwarded(sc.body)
  /\ ~errChan.afterClose /\ ~chunkChan.afterClose
  /\ errChan.closes = (IF sc.pc \in {"closeChunk", "done"} THEN 1 ELSE 0)
  /\ chunkChan.closes = (IF sc.pc = "done" THEN 1 ELSE 0)

\* the goroutine has ended on a storage error after forwarding two chunks
C30_Witness ==
  /\ sc.pc = "done"
  /\ sc.err = "storage"
  /\ Len(chunkChan.sent) = 2
  /\ errChan.closes = 1 /\ chunkChan.closes = 1

====
